---- MODULE Spec2Model ----
(***************************************************************************)
(* The readiness / liveness health-check aggregator of monkescience/vitals *)
(* as a state machine.  Two revisions of the readiness handler are in the  *)
(* sources and both are modelled:                                          *)
(*   "current"  - src/health.go: readyHandler / runAllChecks / runCheck,   *)
(*                one overall timeout, no per-check timeout;               *)
(*   "percheck" - src/unnamed/part_002: ReadyHandlerFunc with an overall   *)
(*                and a per-check timeout (child context per check).       *)
(* The liveness handler, the response writer and the logging of a failed   *)
(* encoding are modelled for both.                                         *)
(* Time is a clock `now` in milliseconds that advances in steps of         *)
(* TimeStep.  A context timer fires at or after its deadline and before    *)
(* the clock advances again.                                               *)
(***************************************************************************)
EXTENDS Integers, Sequences, FiniteSets, TLC

VARIABLES
    handler,    \* what ReadyHandlerFunc closed over: revision, options, cfg, checkers
    reqs,       \* the requests that are served in this run
    now,        \* the clock, in ms
    pc,         \* pc[r]: where the handler of request r is
    reqErr,     \* reqErr[r]: Err() of the inbound request context
    octx,       \* octx[r]: the overall context derived by the handler
    idx,        \* idx[r]: the dispatch loop's next index (1-based)
    wg,         \* wg[r]: the WaitGroup counter
    responses,  \* responses[r]: the pre-sized result sequence
    task,       \* task[r][i]: the goroutine of checker i
    writer,     \* writer[r]: the http.ResponseWriter
    live,       \* the liveness request: where its handler is, and its writer
    logs,       \* the events handed to the structured logger, in order
    mw,         \* a request passing through a middleware of package vital
    proc,       \* the process: running, or how it ended
    srv         \* the Server of src/server.go: configuration, Run, start, channels

readyVars ==
    <<handler, reqs, now, pc, reqErr, octx, idx, wg, responses, task, writer,
      live, logs>>

vars == <<readyVars, mw, proc, srv>>

----------------------------------------------------------------------------
(* Bounds of the model *)

MaxCheckers == 2
TimeStep == 1000

(* Program constants *)

defaultOverallTimeout == 2000
defaultOverallTimeoutV2 == 2000
defaultPerCheckTimeoutV2 == 800
StatusOKCode == 200
StatusServiceUnavailable == 503

StatusOK == "ok"
StatusError == "error"

DeadlineExceeded == "context deadline exceeded"
Canceled == "context canceled"
NoErr == ""
NoDeadline == -1

(* What json.NewEncoder(w).Encode may return: nil, or the error of a failed
   write to the connection. *)
BrokenPipe == "write: broken pipe"
EncodeErrors == {NoErr, BrokenPipe}

Requests == {"r1", "r2"}
CheckerNames == <<"db", "cache", "api", "queue">>

(* What a Checker's Check may return: any status with any message. *)
CheckOutcomes ==
    { <<StatusOK, "">>, <<StatusOK, "warm">>, <<StatusError, "down">> }

(* The durations handed to WithOverallReadyTimeout / WithPerCheckTimeout. *)
OverallChoices == {0 - TimeStep, 0, TimeStep}
PerCheckChoices == {0, TimeStep}

----------------------------------------------------------------------------
(* Configuration: functional options applied over the defaults *)

WithOverallReadyTimeout(d) == [kind |-> "overall", d |-> d]
WithPerCheckTimeout(d) == [kind |-> "percheck", d |-> d]

ApplyOption(cfg, o) ==
    IF o.kind = "overall"
    THEN [cfg EXCEPT !.overallTimeout = o.d]
    ELSE [cfg EXCEPT !.perCheckTimeout = o.d]

RECURSIVE ApplyOptions(_, _)
ApplyOptions(cfg, opts) ==
    IF opts = <<>> THEN cfg
    ELSE ApplyOptions(ApplyOption(cfg, Head(opts)), Tail(opts))

ReadyConfigCurrentNoDefault(opts) ==
    ApplyOptions([overallTimeout |-> 0], opts)

(* src/health.go: readyConfig has the overall timeout only. *)
ReadyConfigCurrent(opts) ==
    ApplyOptions([overallTimeout |-> defaultOverallTimeout], opts)

(* src/unnamed/part_002: overall and per-check timeout, both defaulted. *)
ReadyConfigPerCheck(opts) ==
    ApplyOptions([overallTimeout |-> defaultOverallTimeoutV2,
                  perCheckTimeout |-> defaultPerCheckTimeoutV2], opts)

OptionListsCurrent ==
    {<<>>} \cup {<<WithOverallReadyTimeout(d)>> : d \in OverallChoices}

OptionListsPerCheck ==
    {<<>>}
    \cup {<<WithPerCheckTimeout(d)>> : d \in PerCheckChoices}
    \cup {<<WithOverallReadyTimeout(d), WithPerCheckTimeout(e)>> :
             d \in {0, TimeStep}, e \in PerCheckChoices}

Handlers ==
    { [impl |-> "current", version |-> "1.0.0", environment |-> "test",
       checkers |-> SubSeq(CheckerNames, 1, n), opts |-> o,
       cfg |-> ReadyConfigCurrent(o)] :
         n \in 0..MaxCheckers, o \in OptionListsCurrent }
    \cup
    { [impl |-> "percheck", version |-> "1.0.0", environment |-> "test",
       checkers |-> SubSeq(CheckerNames, 1, n), opts |-> o,
       cfg |-> ReadyConfigPerCheck(o)] :
         n \in 0..MaxCheckers, o \in OptionListsPerCheck }

NumCheckers == Len(handler.checkers)
Slots == 1..NumCheckers

----------------------------------------------------------------------------
(* Contexts *)

WithTimeoutReplacing(parentErr, parentDeadline, t, d) ==
    [derived |-> TRUE, deadline |-> t + d, timer |-> parentErr = NoErr,
     err |-> parentErr]

(* context.WithTimeout(parent, d) called at time t: a child of the parent that
   is done at once when the parent is, or when d <= 0 *)
WithTimeout(parentErr, parentDeadline, t, d) ==
    IF parentDeadline # NoDeadline /\ parentDeadline < t + d
    THEN \* WithDeadline: the parent's deadline is earlier, plain WithCancel(parent)
         [derived |-> TRUE, deadline |-> parentDeadline, timer |-> FALSE,
          err |-> parentErr]
    ELSE IF parentErr = NoErr /\ d <= 0
    THEN [derived |-> TRUE, deadline |-> t + d, timer |-> FALSE,
          err |-> DeadlineExceeded]
    ELSE [derived |-> TRUE, deadline |-> t + d, timer |-> parentErr = NoErr,
          err |-> parentErr]

(* The context value itself, passed on unchanged. *)
SameContext(parentDeadline) ==
    [derived |-> FALSE, deadline |-> parentDeadline, timer |-> FALSE, err |-> NoErr]

contextWithTimeoutIfNeededStrict(parentErr, parentDeadline, t, duration) ==
    IF duration < 0
    THEN SameContext(parentDeadline)
    ELSE WithTimeout(parentErr, parentDeadline, t, duration)

contextWithTimeoutCancelledEarly(parentErr, parentDeadline, t, duration) ==
    IF duration <= 0
    THEN SameContext(parentDeadline)
    ELSE LET c == WithTimeout(parentErr, parentDeadline, t, duration)
         IN  IF c.err = NoErr
             THEN [c EXCEPT !.err = Canceled, !.timer = FALSE]
             ELSE c

contextWithTimeoutIfNeeded(parentErr, parentDeadline, t, duration) ==
    IF duration <= 0
    THEN SameContext(parentDeadline)
    ELSE WithTimeout(parentErr, parentDeadline, t, duration)

CtxErrDetached(r) ==
    IF octx[r].derived /\ octx[r].err = DeadlineExceeded
    THEN DeadlineExceeded
    ELSE NoErr

(* ctx.Err() of the overall context of request r *)
CtxErr(r) == IF octx[r].derived THEN octx[r].err ELSE reqErr[r]

CheckCtxErrShared(r, i) ==
    IF \E j \in DOMAIN task[r] : task[r][j].cctx.err # NoErr
    THEN DeadlineExceeded
    ELSE CtxErr(r)

(* cctx.Err() of the context check i of request r runs under *)
CheckCtxErr(r, i) ==
    IF task[r][i].cctx.derived THEN task[r][i].cctx.err ELSE CtxErr(r)

(* cancel(err) on a context: the first error stays *)
CancelCtx(c, err) ==
    IF c.derived /\ c.err = NoErr
    THEN [c EXCEPT !.err = err, !.timer = FALSE]
    ELSE c

----------------------------------------------------------------------------
(* Pure functions of the handler *)

RECURSIVE TrimZeros(_)
TrimZeros(digits) ==
    IF digits # <<>> /\ digits[Len(digits)] = 0
    THEN TrimZeros(SubSeq(digits, 1, Len(digits) - 1))
    ELSE digits

RECURSIVE Digits(_)
Digits(digits) ==
    IF digits = <<>> THEN ""
    ELSE ToString(Head(digits)) \o Digits(Tail(digits))

(* time.Duration.String() of a duration of ms milliseconds, below one minute *)
DurationString(ms) ==
    IF ms = 0 THEN "0s"
    ELSE IF ms < 1000 THEN ToString(ms) \o "ms"
    ELSE LET frac == TrimZeros(<<(ms % 1000) \div 100, (ms % 100) \div 10, ms % 10>>)
         IN  ToString(ms \div 1000)
             \o (IF frac = <<>> THEN "" ELSE "." \o Digits(frac))
             \o "s"

ZeroCheckResponse ==
    [name |-> "", status |-> "", message |-> "", duration |-> ""]

ReconciledAnyStatus(status, msg, err) ==
    IF err # NoErr
    THEN [status |-> StatusError,
          message |-> IF msg = "" THEN err ELSE msg \o "; " \o err]
    ELSE [status |-> status, message |-> msg]

ReconciledDeadlineOnly(status, msg, err) ==
    IF err = DeadlineExceeded /\ status = StatusOK
    THEN [status |-> StatusError,
          message |-> IF msg = "" THEN err ELSE msg \o "; " \o err]
    ELSE [status |-> status, message |-> msg]

(* runCheck, the reconciliation of the Checker's answer with ctx.Err() *)
Reconciled(status, msg, err) ==
    IF err # NoErr /\ status = StatusOK
    THEN [status |-> StatusError,
          message |-> IF msg = "" THEN err ELSE msg \o "; " \o err]
    ELSE [status |-> status, message |-> msg]

runCheckStartAfterCheck(name, status, msg, err, elapsed) ==
    LET rec == Reconciled(status, msg, err)
    IN  [name |-> name, status |-> rec.status, message |-> rec.message,
         duration |-> DurationString(0)]

runCheckOKWhenAlive(name, status, msg, err, elapsed) ==
    [name |-> name,
     status |-> IF err = NoErr THEN StatusOK ELSE StatusError,
     message |-> IF err = NoErr THEN msg ELSE err,
     duration |-> DurationString(elapsed)]

(* runCheck, the CheckResponse it returns *)
runCheck(name, status, msg, err, elapsed) ==
    LET rec == Reconciled(status, msg, err)
    IN  [name |-> name, status |-> rec.status, message |-> rec.message,
         duration |-> DurationString(elapsed)]

SlotIndexLast(i, n) == n

SlotIndexReversed(i, n) == n + 1 - i

(* the slot the goroutine of checker i (of n) writes *)
SlotIndex(i, n) == i

RECURSIVE overallStatusErrorOnly(_)
overallStatusErrorOnly(checks) ==
    IF checks = <<>> THEN StatusOK
    ELSE IF Head(checks).status = StatusError THEN StatusError
    ELSE overallStatusErrorOnly(Tail(checks))

RECURSIVE overallStatusNeedsOne(_)
overallStatusNeedsOne(checks) ==
    IF checks = <<>> THEN StatusError
    ELSE IF Head(checks).status # StatusOK THEN StatusError
    ELSE IF Tail(checks) = <<>> THEN StatusOK
    ELSE overallStatusNeedsOne(Tail(checks))

overallStatusFirstOnly(checks) ==
    IF checks # <<>> /\ Head(checks).status # StatusOK THEN StatusError ELSE StatusOK

RECURSIVE overallStatus(_)
overallStatus(checks) ==
    IF checks = <<>> THEN StatusOK
    ELSE IF Head(checks).status # StatusOK THEN StatusError
    ELSE overallStatus(Tail(checks))

StatusCodeInternalError(status) ==
    IF status # StatusOK THEN 500 ELSE StatusOKCode

(* readyHandler, the status code of the response *)
StatusCode(status) ==
    IF status # StatusOK THEN StatusServiceUnavailable ELSE StatusOKCode

WaitReturnsOffByOne(counter) == counter <= 1

WaitReturnsBelowZero(counter) == counter < 0

(* waitGroup.Wait() returns *)
WaitReturns(counter) == counter = 0

CacheHeaders ==
    { <<"Cache-Control", "no-store, no-cache">>,
      <<"Pragma", "no-cache">>,
      <<"Expires", "Thu, 01 Jan 1970 00:00:00 GMT">> }

(* The http.ResponseWriter: the header map under construction, the status
   code once written (0 before), the headers that went out with it, the
   payload handed to the encoder and the error the encoder returned. *)
NewWriter ==
    [headers |-> {}, code |-> 0, sent |-> {}, body |-> <<>>, encodeErr |-> NoErr]

(* w.Header().Set(key, value) *)
SetHeader(w, key, value) ==
    [w EXCEPT !.headers = {h \in @ : h[1] # key} \cup {<<key, value>>}]

(* w.WriteHeader(code): the status line and the header map as it is now go
   out; a second call changes nothing *)
WriteHeader(w, code) ==
    IF w.code = 0 THEN [w EXCEPT !.code = code, !.sent = w.headers] ELSE w

(* w.Write(data): a first Write without a status line implies
   WriteHeader(200); the data follow what was written before *)
Write(w, data) ==
    [WriteHeader(w, StatusOKCode) EXCEPT !.body = Append(@, data)]

(* json.NewEncoder(w).Encode(payload), returning err *)
Encode(w, payload, err) ==
    [Write(w, payload) EXCEPT !.encodeErr = err]

disableResponseCacheHeaders(w) ==
    [w EXCEPT !.headers =
        {h \in @ : \A c \in CacheHeaders : h[1] # c[1]} \cup CacheHeaders]

respondJSONBodyFirst(w, statusCode, payload, err) ==
    WriteHeader(Encode(SetHeader(w, "Content-Type", "application/json"),
                       payload, err),
                statusCode)

respondJSON(w, statusCode, payload, err) ==
    Encode(WriteHeader(SetHeader(w, "Content-Type", "application/json"),
                       statusCode),
           payload, err)

RespondNoCacheHeadersLate(w, statusCode, payload, err) ==
    disableResponseCacheHeaders(respondJSON(w, statusCode, payload, err))

(* what both handlers end with: disableResponseCacheHeaders(writer), then
   respondJSON(writer, statusCode, response) *)
RespondNoCache(w, statusCode, payload, err) ==
    respondJSON(disableResponseCacheHeaders(w), statusCode, payload, err)

EncodeFailureLogAlways(ctx, name, route, statusCode, err) ==
    IF err # NoErr
    THEN <<[ctx |-> ctx, level |-> "ERROR",
            msg |-> "failed to encode " \o name \o " health response",
            handler |-> name, route |-> route, status |-> statusCode,
            error |-> err]>>
    ELSE <<>>

(* what the handler logs about the error Encode returned: part_002 logs one
   slog.ErrorContext event, respondJSON of src/health.go discards the error *)
EncodeFailureLog(ctx, name, route, statusCode, err) ==
    IF err # NoErr /\ handler.impl = "percheck"
    THEN <<[ctx |-> ctx, level |-> "ERROR",
            msg |-> "failed to encode " \o name \o " health response",
            handler |-> name, route |-> route, status |-> statusCode,
            error |-> err]>>
    ELSE <<>>

LiveResponseFromChecks ==
    [status |->
        IF \E r \in reqs : \E i \in DOMAIN responses[r] :
              responses[r][i].status = StatusError
        THEN StatusError ELSE StatusOK]

(* LiveResponse *)
LiveResponse ==
    IF handler.impl = "current"
    THEN [status |-> StatusOK]
    ELSE [status |-> StatusOK, version |-> handler.version,
          uptime |-> DurationString(now), go_version |-> "go",
          host |-> "localhost", environment |-> handler.environment]

ResponsesOfHandler(r) == "r1"

(* runAllChecks: responses := make(...), the results belong to the call *)
ResponsesOf(r) == r

ReadyResponseStatusInVersion(r) ==
    LET checks == responses[ResponsesOf(r)]
    IN  IF handler.impl = "current"
        THEN [status |-> overallStatus(checks), checks |-> checks,
              version |-> overallStatus(checks),
              environment |-> handler.environment]
        ELSE [status |-> overallStatus(checks), checks |-> checks]

ReadyResponse(r) ==
    LET checks == responses[ResponsesOf(r)]
    IN  IF handler.impl = "current"
        THEN [status |-> overallStatus(checks), checks |-> checks,
              version |-> handler.version, environment |-> handler.environment]
        ELSE [status |-> overallStatus(checks), checks |-> checks]

----------------------------------------------------------------------------
(* Initial state: the handler is constructed, no request is handled yet *)

(* calls counts the invocations of the Checker's Check *)
NewTask ==
    [pc |-> "new", start |-> 0, cctx |-> SameContext(NoDeadline),
     status |-> "", msg |-> "", calls |-> 0]

(* no middleware in front of the health handlers *)
NoMiddleware == [kind |-> "none"]

(* the requests in gone arrive with a context that is cancelled already *)
InitReady(served, gone) ==
    /\ handler \in Handlers
    /\ reqs = served
    /\ now = 0
    /\ pc = [r \in Requests |-> "idle"]
    /\ reqErr = [r \in Requests |-> IF r \in gone THEN Canceled ELSE NoErr]
    /\ octx = [r \in Requests |-> SameContext(NoDeadline)]
    /\ idx = [r \in Requests |-> 1]
    /\ wg = [r \in Requests |-> 0]
    /\ responses = [r \in Requests |-> <<>>]
    /\ task = [r \in Requests |-> <<>>]
    /\ writer = [r \in Requests |-> NewWriter]
    /\ live = [pc |-> "idle", writer |-> NewWriter]
    /\ logs = <<>>

(* no Server around the handlers: they are served as in the tests *)
NoServer == [kind |-> "none"]

InitWith(served, gone) ==
    /\ InitReady(served, gone)
    /\ mw = NoMiddleware
    /\ proc = "running"
    /\ srv = NoServer

InitFor(served) == InitWith(served, {})

Init == InitFor({"r1"})

----------------------------------------------------------------------------
(* The handler of one request *)

(* readyHandler up to the fan-out loop: derive the overall context, allocate
   the results (part_002 also adds all checkers to the WaitGroup at once) *)
ReadyStart(r) ==
    /\ pc[r] = "idle"
    /\ octx' = [octx EXCEPT ![r] =
          contextWithTimeoutIfNeeded(reqErr[r], NoDeadline, now,
                                     handler.cfg.overallTimeout)]
    /\ responses' = [responses EXCEPT ![ResponsesOf(r)] =
                        [i \in Slots |-> ZeroCheckResponse]]
    /\ task' = [task EXCEPT ![r] = [i \in Slots |-> NewTask]]
    /\ wg' = [wg EXCEPT ![r] = IF handler.impl = "percheck" THEN NumCheckers ELSE 0]
    /\ idx' = [idx EXCEPT ![r] = 1]
    /\ pc' = [pc EXCEPT ![r] = IF NumCheckers = 0 THEN "wait" ELSE "dispatch"]
    /\ UNCHANGED <<srv, mw, proc, handler, live, logs, reqs, now, reqErr, writer>>

(* one iteration of the fan-out loop: start the goroutine of checker idx *)
Dispatch(r) ==
    /\ pc[r] = "dispatch"
    /\ task' = [task EXCEPT ![r][idx[r]].pc = "spawned"]
    /\ wg' = [wg EXCEPT ![r] = IF handler.impl = "current" THEN @ + 1 ELSE @]
    /\ idx' = [idx EXCEPT ![r] = @ + 1]
    /\ pc' = [pc EXCEPT ![r] = IF idx[r] = NumCheckers THEN "wait" ELSE "dispatch"]
    /\ UNCHANGED <<srv, mw, proc, handler, live, logs, reqs, now, reqErr, octx, responses, writer>>

CheckContextNoGuard(r) ==
    IF handler.impl = "percheck"
    THEN WithTimeout(CtxErr(r), octx[r].deadline, now, handler.cfg.perCheckTimeout)
    ELSE SameContext(octx[r].deadline)

(* the context Check is called with *)
CheckContext(r) ==
    IF handler.impl = "percheck"
    THEN contextWithTimeoutIfNeeded(CtxErr(r), octx[r].deadline, now,
                                    handler.cfg.perCheckTimeout)
    ELSE SameContext(octx[r].deadline)

CallsCheckIfAlive(err) == err = NoErr

(* runCheck calls chk.Check(ctx) whatever ctx.Err() is *)
CallsCheck(err) == TRUE

(* the goroutine starts: start := time.Now(), derive cctx, call Check *)
GoStart(r, i) ==
    /\ pc[r] \in {"dispatch", "wait"}
    /\ task[r][i].pc = "spawned"
    /\ task' = [task EXCEPT ![r][i] =
          [@ EXCEPT !.pc = "checking", !.start = now, !.cctx = CheckContext(r),
                    !.calls = IF CallsCheck(CtxErr(r)) THEN @ + 1 ELSE @]]
    /\ UNCHANGED <<srv, mw, proc, handler, live, logs, reqs, now, pc, reqErr, octx, idx, wg, responses, writer>>

(* the Checker returns, whenever it likes and whatever it likes *)
CheckReturn(r, i) ==
    /\ task[r][i].pc = "checking"
    /\ \E out \in CheckOutcomes :
          task' = [task EXCEPT ![r][i] =
             [@ EXCEPT !.pc = "returned", !.status = out[1], !.msg = out[2]]]
    /\ UNCHANGED <<srv, mw, proc, handler, live, logs, reqs, now, pc, reqErr, octx, idx, wg, responses, writer>>

(* the rest of the goroutine once Check has returned: err := ctx.Err(), the
   override, the write of the slot, the deferred ccancel() of part_002 and
   wg.Done() *)
Finish(r, i) ==
    /\ task[r][i].pc = "returned"
    /\ LET err == CheckCtxErr(r, i)
           t == task[r][i]
       IN  responses' = [responses EXCEPT
              ![ResponsesOf(r)][SlotIndex(i, NumCheckers)] =
              runCheck(handler.checkers[i], t.status, t.msg, err, now - t.start)]
    /\ task' = [task EXCEPT ![r][i] =
          [@ EXCEPT !.pc = "done", !.start = 0, !.cctx = SameContext(NoDeadline)]]
    /\ wg' = [wg EXCEPT ![r] = @ - 1]
    /\ UNCHANGED <<srv, mw, proc, handler, live, logs, reqs, now, pc, reqErr, octx, idx, writer>>

(* waitGroup.Wait() returns *)
Join(r) ==
    /\ pc[r] = "wait"
    /\ WaitReturns(wg[r])
    /\ pc' = [pc EXCEPT ![r] = "joined"]
    /\ UNCHANGED <<srv, mw, proc, handler, live, logs, reqs, now, reqErr, octx, idx, wg, responses, task, writer>>

(* reduce, then write headers, status line and body; the encoder may fail *)
Respond(r) ==
    /\ pc[r] = "joined"
    /\ \E err \in EncodeErrors :
          LET response == ReadyResponse(r)
              statusCode == StatusCode(response.status)
          IN  /\ writer' = [writer EXCEPT ![r] =
                    RespondNoCache(@, statusCode, response, err)]
              /\ logs' = logs \o EncodeFailureLog(r, "ready", "/health/ready",
                                                  statusCode, err)
    /\ pc' = [pc EXCEPT ![r] = "responded"]
    /\ UNCHANGED <<srv, mw, proc, handler, live, reqs, now, reqErr, octx, idx, wg, responses, task>>

(* the liveness handler, from entry to return: it reads neither the Checkers
   nor any result *)
LiveHandler ==
    /\ live.pc = "idle"
    /\ \E err \in EncodeErrors :
          /\ live' = [pc |-> "returned",
                      writer |-> RespondNoCache(live.writer, StatusOKCode,
                                                LiveResponse, err)]
          /\ logs' = logs \o EncodeFailureLog("live", "live", "/health/live",
                                              StatusOKCode, err)
    /\ UNCHANGED <<srv, mw, proc, handler, reqs, now, pc, reqErr, octx, idx, wg, responses,
                   task, writer>>

(* cancel(err) reaching the contexts derived for the checks *)
Propagate(tasks, err) ==
    [i \in DOMAIN tasks |-> [tasks[i] EXCEPT !.cctx = CancelCtx(@, err)]]

(* the handler returns: the deferred cancel() of the overall context *)
Return(r) ==
    /\ pc[r] = "responded"
    /\ octx' = [octx EXCEPT ![r] = CancelCtx(@, Canceled)]
    /\ task' = [task EXCEPT ![r] =
          IF octx[r].derived /\ octx[r].err = NoErr
          THEN Propagate(@, Canceled) ELSE @]
    /\ pc' = [pc EXCEPT ![r] = "returned"]
    /\ UNCHANGED <<srv, mw, proc, handler, live, logs, reqs, now, reqErr, idx, wg, responses, writer>>

----------------------------------------------------------------------------
(* The environment: the clock, the timers, the client *)

TimerDue(c) == c.timer /\ c.deadline <= now

(* the clock stops once the longest configured budget has passed *)
Horizon == defaultOverallTimeout

Tick ==
    /\ now < Horizon
    /\ \E r \in reqs : pc[r] \in {"dispatch", "wait"}
    /\ \A r \in reqs :
          /\ ~TimerDue(octx[r])
          /\ \A i \in DOMAIN task[r] : ~TimerDue(task[r][i].cctx)
    /\ now' = now + TimeStep
    /\ UNCHANGED <<srv, mw, proc, handler, live, logs, reqs, pc, reqErr, octx, idx, wg, responses, task, writer>>

(* the timer of the overall context fires *)
OverallTimeout(r) ==
    /\ TimerDue(octx[r])
    /\ octx' = [octx EXCEPT ![r] = CancelCtx(@, DeadlineExceeded)]
    /\ task' = [task EXCEPT ![r] = Propagate(@, DeadlineExceeded)]
    /\ UNCHANGED <<srv, mw, proc, handler, live, logs, reqs, now, pc, reqErr, idx, wg, responses, writer>>

(* the timer of a per-check context fires *)
PerCheckTimeout(r, i) ==
    /\ TimerDue(task[r][i].cctx)
    /\ task' = [task EXCEPT ![r][i].cctx = CancelCtx(@, DeadlineExceeded)]
    /\ UNCHANGED <<srv, mw, proc, handler, live, logs, reqs, now, pc, reqErr, octx, idx, wg, responses, writer>>

(* the inbound request is cancelled (the client went away) *)
RequestCancel(r) ==
    /\ pc[r] \in {"idle", "dispatch", "wait"}
    /\ reqErr[r] = NoErr
    /\ reqErr' = [reqErr EXCEPT ![r] = Canceled]
    /\ octx' = [octx EXCEPT ![r] = CancelCtx(@, Canceled)]
    /\ task' = [task EXCEPT ![r] =
          IF CtxErr(r) = NoErr THEN Propagate(@, Canceled) ELSE @]
    /\ UNCHANGED <<srv, mw, proc, handler, live, logs, reqs, now, pc, idx, wg, responses, writer>>

----------------------------------------------------------------------------
Next ==
    \/ \E r \in reqs : ReadyStart(r)
    \/ \E r \in reqs : Dispatch(r)
    \/ \E r \in reqs : \E i \in DOMAIN task[r] : GoStart(r, i)
    \/ \E r \in reqs : \E i \in DOMAIN task[r] : CheckReturn(r, i)
    \/ \E r \in reqs : \E i \in DOMAIN task[r] : Finish(r, i)
    \/ \E r \in reqs : Join(r)
    \/ \E r \in reqs : Respond(r)
    \/ \E r \in reqs : Return(r)
    \/ Tick
    \/ \E r \in reqs : OverallTimeout(r)
    \/ \E r \in reqs : \E i \in DOMAIN task[r] : PerCheckTimeout(r, i)
    \/ \E r \in reqs : RequestCancel(r)

Spec == Init /\ [][Next]_vars

(* Status is a string type: a Checker may return a value that is neither
   StatusOK nor StatusError, the zero value included. *)
OtherOutcomes == { <<"degraded", "slow">>, <<"", "">> }

CheckReturnOther(r, i) ==
    /\ task[r][i].pc = "checking"
    /\ \E out \in OtherOutcomes :
          task' = [task EXCEPT ![r][i] =
             [@ EXCEPT !.pc = "returned", !.status = out[1], !.msg = out[2]]]
    /\ UNCHANGED <<srv, mw, proc, handler, live, logs, reqs, now, pc, reqErr, octx, idx,
                   wg, responses, writer>>

HandlersStatus ==
    {h \in Handlers :
        h.opts \in {<<WithOverallReadyTimeout(TimeStep)>>,
                    <<WithPerCheckTimeout(TimeStep)>>}}

InitStatus ==
    /\ Init
    /\ handler \in HandlersStatus

NextStatus ==
    \/ Next
    \/ \E r \in reqs : \E i \in DOMAIN task[r] : CheckReturnOther(r, i)

SpecStatus == InitStatus /\ [][NextStatus]_vars

(* The liveness endpoint is served while a readiness request on a handler
   with at most one Checker is in any state. *)
HandlersLive == {h \in Handlers : Len(h.checkers) <= 1}

InitLive ==
    /\ Init
    /\ handler \in HandlersLive

NextLive ==
    \/ Next
    \/ LiveHandler

SpecLive == InitLive /\ [][NextLive]_vars

(* One request whose context is cancelled before the handler runs, as in
   TestReadyHandler_ContextCancellation: no timer is ever armed under a
   cancelled parent and the request cannot be cancelled twice. *)
InitCancelled == InitWith({"r1"}, {"r1"})

NextCancelled ==
    \/ \E r \in reqs : ReadyStart(r)
    \/ \E r \in reqs : Dispatch(r)
    \/ \E r \in reqs : \E i \in DOMAIN task[r] : GoStart(r, i)
    \/ \E r \in reqs : \E i \in DOMAIN task[r] : CheckReturn(r, i)
    \/ \E r \in reqs : \E i \in DOMAIN task[r] : Finish(r, i)
    \/ \E r \in reqs : Join(r)
    \/ \E r \in reqs : Respond(r)
    \/ \E r \in reqs : Return(r)
    \/ Tick

SpecCancelled == InitCancelled /\ [][NextCancelled]_vars

(* Two requests served concurrently by one handler with one Checker *)
HandlersConc ==
    {h \in Handlers :
        /\ Len(h.checkers) = 1
        /\ h.opts \in {<<WithOverallReadyTimeout(TimeStep)>>,
                       <<WithPerCheckTimeout(TimeStep)>>}}

InitConc ==
    /\ InitFor(Requests)
    /\ handler \in HandlersConc

SpecConc == InitConc /\ [][Next]_vars

(* One request under the Go scheduler: a goroutine that can run does run, so
   the steps of the handler and of the check goroutines are weakly fair; and
   every Check returns in the end.  The clock, the timers and the client are
   left without fairness.  The handlers have zero, one or two Checkers and
   no deadline at all, an overall deadline or a per-check deadline. *)
HandlersFair ==
    {h \in Handlers :
        /\ Len(h.checkers) <= 2
        /\ h.opts \in {<<WithOverallReadyTimeout(0)>>,
                    <<WithOverallReadyTimeout(0), WithPerCheckTimeout(0)>>,
                    <<WithOverallReadyTimeout(TimeStep)>>,
                    <<WithPerCheckTimeout(TimeStep)>>}}

InitFair ==
    /\ Init
    /\ handler \in HandlersFair

HandlerFairness(r) ==
    /\ WF_vars(Dispatch(r))
    /\ WF_vars(Join(r))
    /\ WF_vars(Respond(r))
    /\ WF_vars(Return(r))

GoroutineFairness(r, i) ==
    /\ WF_vars(i \in DOMAIN task[r] /\ GoStart(r, i))
    /\ WF_vars(i \in DOMAIN task[r] /\ Finish(r, i))

(* the premise that every Checker's Check eventually returns *)
CheckersReturn(r, i) ==
    WF_vars(i \in DOMAIN task[r] /\ CheckReturn(r, i))

SpecFair ==
    /\ InitFair
    /\ [][Next]_vars
    /\ \A r \in Requests :
          /\ HandlerFairness(r)
          /\ \A i \in 1..MaxCheckers :
                GoroutineFairness(r, i) /\ CheckersReturn(r, i)


----------------------------------------------------------------------------
(* The middleware of package vital (src/unnamed/part_001, lines 1-364) and
   RespondProblem (src/response.go), in front of a handler *)

StatusUnauthorized == 401
StatusInternalServerError == 500

(* The credentials BasicAuth is configured with, and the Authorization
   headers a request may carry: none, another scheme, a Basic payload that
   does not decode into user:password, or Basic credentials. *)
Usernames == {"", "admin"}
Passwords == {"", "secret"}
Realms == {"", "Test Realm"}

Authorizations ==
    { [scheme |-> "none", valid |-> FALSE, username |-> "", password |-> ""],
      [scheme |-> "Bearer", valid |-> FALSE, username |-> "", password |-> ""],
      [scheme |-> "Basic", valid |-> FALSE, username |-> "", password |-> ""] }
    \cup
    { [scheme |-> "Basic", valid |-> TRUE, username |-> u, password |-> p] :
         u \in {"", "admin", "wrong"}, p \in {"", "secret", "wrong"} }

(* r.BasicAuth(): username, password, ok *)
RequestBasicAuth(auth) ==
    IF auth.scheme = "Basic" /\ auth.valid
    THEN [username |-> auth.username, password |-> auth.password, ok |-> TRUE]
    ELSE [username |-> "", password |-> "", ok |-> FALSE]

(* sha256.Sum256, taken as collision free *)
Sum256(text) == "sha256(" \o text \o ")"

(* subtle.ConstantTimeCompare *)
ConstantTimeCompare(x, y) == IF x = y THEN 1 ELSE 0

(* BasicAuth: realm defaults to "Restricted" *)
RealmOf(realm) == IF realm = "" THEN "Restricted" ELSE realm

AuthenticatedIgnoringOk(cfg, auth) ==
    LET provided == RequestBasicAuth(auth)
    IN  /\ ConstantTimeCompare(Sum256(cfg.username), Sum256(provided.username)) = 1
        /\ ConstantTimeCompare(Sum256(cfg.password), Sum256(provided.password)) = 1

(* BasicAuth: ok && usernameMatch && passwordMatch *)
Authenticated(cfg, auth) ==
    LET provided == RequestBasicAuth(auth)
        usernameMatch ==
            ConstantTimeCompare(Sum256(cfg.username), Sum256(provided.username)) = 1
        passwordMatch ==
            ConstantTimeCompare(Sum256(cfg.password), Sum256(provided.password)) = 1
    IN  ~(~provided.ok \/ ~usernameMatch \/ ~passwordMatch)

(* Unauthorized(detail) *)
Unauthorized(detail) ==
    [title |-> "Unauthorized", status |-> StatusUnauthorized, detail |-> detail]

(* RespondProblem: content type, status line, body; the encoding error is
   discarded *)
RespondProblem(w, problem, err) ==
    Encode(WriteHeader(SetHeader(w, "Content-Type", "application/problem+json"),
                       problem.status),
           problem, err)

(* the handler the tests wrap: 200 and a body *)
NextServeHTTP(w) == Write(WriteHeader(w, StatusOKCode), "success")

BasicAuthConfigs ==
    { [kind |-> "basicauth", pc |-> "idle",
       cfg |-> [username |-> u, password |-> p, realm |-> RealmOf(rl)],
       realmArg |-> rl,
       auth |-> [scheme |-> "none", valid |-> FALSE, username |-> "", password |-> ""],
       nextCalls |-> 0, writer |-> NewWriter] :
         u \in Usernames, p \in Passwords, rl \in Realms }

(* a request arrives at the protected handler *)
BasicAuthRequest ==
    /\ mw.kind = "basicauth"
    /\ mw.pc = "idle"
    /\ \E auth \in Authorizations :
          mw' = [mw EXCEPT !.pc = "serving", !.auth = auth]
    /\ UNCHANGED <<readyVars, proc, srv>>

(* the handler function BasicAuth returns: reject with 401 or call next *)
BasicAuthServe ==
    /\ mw.kind = "basicauth"
    /\ mw.pc = "serving"
    /\ IF ~Authenticated(mw.cfg, mw.auth)
       THEN \E err \in EncodeErrors :
               mw' = [mw EXCEPT
                  !.pc = "returned",
                  !.writer = RespondProblem(
                      SetHeader(@, "WWW-Authenticate",
                                "Basic realm=\"" \o mw.cfg.realm \o "\""),
                      Unauthorized("authentication required"), err)]
       ELSE mw' = [mw EXCEPT !.pc = "returned", !.nextCalls = @ + 1,
                             !.writer = NextServeHTTP(@)]
    /\ UNCHANGED <<readyVars, proc, srv>>

(* InternalServerError(detail) *)
InternalServerError(detail) ==
    [title |-> "Internal Server Error", status |-> StatusInternalServerError,
     detail |-> detail]

(* What a handler wrapped in Recovery does, step by step: it may write the
   status line, write a body, and panic at any point or return. *)
NoPanic == "<nil>"
PanicValues == {"something went wrong"}

HandlerScripts ==
    { <<>>, <<"header", "body">>, <<"body">>,
      <<"panic">>, <<"header", "panic">>, <<"header", "body", "panic">> }

(* one step of the wrapped handler on its writer *)
HandlerOp(w, op) ==
    IF op = "header" THEN WriteHeader(w, StatusOKCode)
    ELSE IF op = "body" THEN Write(w, "ok")
    ELSE w

(* what the wrapped handler has written when it returns or panics *)
RECURSIVE Play(_, _)
Play(w, script) ==
    IF script = <<>> \/ Head(script) = "panic" THEN w
    ELSE Play(HandlerOp(w, Head(script)), Tail(script))

Panics(script) == \E k \in DOMAIN script : script[k] = "panic"

RecoveryConfigs ==
    { [kind |-> "recovery", pc |-> "idle", script |-> sc, todo |-> sc,
       method |-> m, path |-> pa, panicking |-> NoPanic, log |-> <<>>,
       writer |-> NewWriter] :
         sc \in HandlerScripts, m \in {"GET", "POST"}, pa \in {"/", "/panic"} }

(* the handler function Recovery returns is called: the deferred function is
   registered and next.ServeHTTP(w, r) is entered *)
RecoveryCall ==
    /\ mw.kind = "recovery"
    /\ mw.pc = "idle"
    /\ mw' = [mw EXCEPT !.pc = "next"]
    /\ UNCHANGED <<readyVars, proc, srv>>

(* the wrapped handler writes *)
RecoveryNextStep ==
    /\ mw.kind = "recovery"
    /\ mw.pc = "next"
    /\ mw.todo # <<>> /\ Head(mw.todo) # "panic"
    /\ mw' = [mw EXCEPT !.writer = HandlerOp(@, Head(mw.todo)),
                        !.todo = Tail(@)]
    /\ UNCHANGED <<readyVars, proc, srv>>

(* the wrapped handler panics: the deferred function runs next *)
RecoveryNextPanic ==
    /\ mw.kind = "recovery"
    /\ mw.pc = "next"
    /\ mw.todo # <<>> /\ Head(mw.todo) = "panic"
    /\ \E v \in PanicValues :
          mw' = [mw EXCEPT !.pc = "deferred", !.panicking = v, !.todo = <<>>]
    /\ UNCHANGED <<readyVars, proc, srv>>

(* the wrapped handler returns: the deferred function runs next *)
RecoveryNextReturn ==
    /\ mw.kind = "recovery"
    /\ mw.pc = "next"
    /\ mw.todo = <<>>
    /\ mw' = [mw EXCEPT !.pc = "deferred"]
    /\ UNCHANGED <<readyVars, proc, srv>>

RecoveredSilently(m, err) ==
    IF m.panicking # NoPanic
    THEN [m EXCEPT
            !.panicking = NoPanic,
            !.writer = RespondProblem(@, InternalServerError("internal server error"),
                                      err)]
    ELSE m

(* the deferred function of Recovery: recover(), and on a panic one log
   event and RespondProblem *)
Recovered(m, err) ==
    IF m.panicking # NoPanic
    THEN [m EXCEPT
            !.panicking = NoPanic,
            !.log = Append(@, [level |-> "ERROR", msg |-> "panic recovered",
                               error |-> m.panicking, method |-> m.method,
                               path |-> m.path]),
            !.writer = RespondProblem(@, InternalServerError("internal server error"),
                                      err)]
    ELSE m

RecoveryDeferred ==
    /\ mw.kind = "recovery"
    /\ mw.pc = "deferred"
    /\ \E err \in (IF mw.panicking # NoPanic THEN EncodeErrors ELSE {NoErr}) :
          mw' = [Recovered(mw, err) EXCEPT !.pc = "returned"]
    /\ UNCHANGED <<readyVars, proc, srv>>

HandlersBare ==
    {h \in Handlers : h.impl = "current" /\ h.checkers = <<>> /\ h.opts = <<>>}

InitAuth ==
    /\ InitReady({}, {})
    /\ handler \in HandlersBare
    /\ mw \in BasicAuthConfigs
    /\ proc = "running"
    /\ srv = NoServer

NextAuth ==
    \/ BasicAuthRequest
    \/ BasicAuthServe

SpecAuth == InitAuth /\ [][NextAuth]_vars

InitRecovery ==
    /\ InitReady({}, {})
    /\ handler \in HandlersBare
    /\ mw \in RecoveryConfigs
    /\ proc = "running"
    /\ srv = NoServer

NextRecovery ==
    \/ RecoveryCall
    \/ RecoveryNextStep
    \/ RecoveryNextPanic
    \/ RecoveryNextReturn
    \/ RecoveryDeferred

SpecRecovery == InitRecovery /\ [][NextRecovery]_vars

(* The readiness handler wrapped in Recovery, with Checkers that may panic.
   Check runs in the goroutine started by waitGroup.Go (go func in
   part_002); the deferred recover of Recovery is on the stack of the
   handler goroutine.  A panic that unwinds a goroutine without reaching a
   recover terminates the program. *)
CheckPanic(r, i) ==
    /\ task[r][i].pc = "checking"
    /\ \E v \in PanicValues :
          /\ task' = [task EXCEPT ![r][i] = [@ EXCEPT !.pc = "panicked", !.msg = v]]
          /\ proc' = "exit status 2"
    /\ UNCHANGED <<srv, mw, handler, live, logs, reqs, now, pc, reqErr, octx, idx, wg,
                   responses, writer>>

(* the wrapped readiness handler has returned to Recovery *)
RecoveryReadyReturn ==
    /\ \A r \in reqs : pc[r] = "returned"
    /\ RecoveryNextReturn

InitPanic ==
    /\ InitReady({"r1"}, {})
    /\ handler \in HandlersLive
    /\ mw \in {m \in RecoveryConfigs :
                  m.script = <<>> /\ m.method = "GET" /\ m.path = "/"}
    /\ proc = "running"
    /\ srv = NoServer

(* the process runs and the request is inside next.ServeHTTP *)
Serving == proc = "running" /\ mw.pc = "next"

NextPanic ==
    \/ proc = "running" /\ RecoveryCall
    \/ Serving /\ \E r \in reqs : ReadyStart(r)
    \/ Serving /\ \E r \in reqs : Dispatch(r)
    \/ Serving /\ \E r \in reqs : \E i \in DOMAIN task[r] : GoStart(r, i)
    \/ Serving /\ \E r \in reqs : \E i \in DOMAIN task[r] : CheckReturn(r, i)
    \/ Serving /\ \E r \in reqs : \E i \in DOMAIN task[r] : CheckPanic(r, i)
    \/ Serving /\ \E r \in reqs : \E i \in DOMAIN task[r] : Finish(r, i)
    \/ Serving /\ \E r \in reqs : Join(r)
    \/ Serving /\ \E r \in reqs : Respond(r)
    \/ Serving /\ \E r \in reqs : Return(r)
    \/ Serving /\ Tick
    \/ Serving /\ \E r \in reqs : OverallTimeout(r)
    \/ Serving /\ \E r \in reqs : \E i \in DOMAIN task[r] : PerCheckTimeout(r, i)
    \/ Serving /\ \E r \in reqs : RequestCancel(r)
    \/ proc = "running" /\ RecoveryReadyReturn
    \/ proc = "running" /\ RecoveryDeferred

SpecPanic == InitPanic /\ [][NextPanic]_vars

----------------------------------------------------------------------------
(* Properties *)

CtxErrors == {NoErr, DeadlineExceeded, Canceled}

Responded(r) == writer[r].body # <<>>
Body(r) == writer[r].body[1]

(* C1: the response of a readiness invocation with N Checkers has exactly N
   check entries, and entry i carries the name of the i-th Checker and the
   (reconciled) answer of the i-th Checker, whatever the completion order and
   whether the checks succeeded, failed or timed out. *)
C1_ResultsInInputOrder ==
    \A r \in reqs : Responded(r) =>
        LET checks == Body(r).checks
        IN  /\ Len(checks) = NumCheckers
            /\ \A i \in 1..Len(checks) :
                  /\ checks[i].name = handler.checkers[i]
                  /\ \E err \in CtxErrors :
                        LET rec == Reconciled(task[r][i].status, task[r][i].msg, err)
                        IN  /\ checks[i].status = rec.status
                            /\ checks[i].message = rec.message

(* two checks that completed in the reverse order: the second at once and OK,
   the first one tick later, failing, or timed out *)
C1_Witness ==
    \E r \in reqs :
        /\ Responded(r)
        /\ Len(Body(r).checks) = 2
        /\ Body(r).checks[2].status = StatusOK
        /\ Body(r).checks[2].duration = DurationString(0)
        /\ Body(r).checks[1].status = StatusError
        /\ Body(r).checks[1].message = DeadlineExceeded
        /\ Body(r).checks[1].duration = DurationString(TimeStep)

(* C2: in every readiness response the aggregate status is OK iff every
   check entry's status is OK, and ERROR otherwise. *)
C2_AggregateIffAllOK ==
    \A r \in reqs : Responded(r) =>
        /\ Body(r).status = StatusOK <=>
              \A i \in 1..Len(Body(r).checks) : Body(r).checks[i].status = StatusOK
        /\ Body(r).status # StatusOK => Body(r).status = StatusError

(* a mixed response: the first check OK, the second not *)
C2_Witness ==
    \E r \in reqs :
        /\ Responded(r)
        /\ Len(Body(r).checks) = 2
        /\ Body(r).checks[1].status = StatusOK
        /\ Body(r).checks[2].status = StatusError
        /\ Body(r).status = StatusError

(* C3: a readiness invocation answers 200 when the aggregate status is OK and
   503 otherwise, never another code; no status is written before the
   response, and every invocation that has returned has answered. *)
C3_StatusCode200Or503 ==
    \A r \in reqs :
        /\ writer[r].code \in {0, StatusOKCode, StatusServiceUnavailable}
        /\ writer[r].code = 0 <=> ~Responded(r)
        /\ Responded(r) =>
              /\ Body(r).status = StatusOK => writer[r].code = StatusOKCode
              /\ Body(r).status # StatusOK => writer[r].code = StatusServiceUnavailable
        /\ pc[r] \in {"responded", "returned"} <=> Responded(r)

(* a handler that returned 503 after a deadline fired on a Checker saying OK,
   and one whose request was cancelled *)
C3_Witness ==
    \E r \in reqs :
        /\ pc[r] = "returned"
        /\ writer[r].code = StatusServiceUnavailable
        /\ \E i \in 1..Len(Body(r).checks) :
              /\ task[r][i].status = StatusOK
              /\ Body(r).checks[i].message \in {DeadlineExceeded, Canceled}

(* a step in which the goroutine of checker i inspects its context and
   stores its result *)
FinishStep(r, i) ==
    /\ i \in DOMAIN task[r]
    /\ task[r][i].pc = "returned"
    /\ task'[r][i].pc = "done"

(* the error of the context check i itself runs under *)
OwnCtxErr(r, i) ==
    IF task[r][i].cctx.derived THEN task[r][i].cctx.err
    ELSE IF octx[r].derived THEN octx[r].err ELSE reqErr[r]

(* C4: timeout override.  When Check returned OK and the context the check
   ran under reports an error at the moment the runner inspects it, the
   stored CheckResult has status ERROR and its message is the context's
   error text if the Checker's message is empty, else the Checker's message,
   "; " and the context's error text. *)
C4_TimeoutOverride ==
    [][\A r \in reqs : \A i \in Slots :
          (FinishStep(r, i) /\ task[r][i].status = StatusOK /\ OwnCtxErr(r, i) # NoErr)
          => /\ responses'[r][i].status = StatusError
             /\ responses'[r][i].message =
                   IF task[r][i].msg = "" THEN OwnCtxErr(r, i)
                   ELSE task[r][i].msg \o "; " \o OwnCtxErr(r, i)]_vars

(* a Checker that ignored the deadline and answered OK ("warm") a full tick
   after it had fired, and one that answered OK with no message *)
C4_Witness ==
    \E r \in reqs : \E i \in Slots :
        /\ i \in DOMAIN task[r]
        /\ task[r][i].pc = "done"
        /\ task[r][i].status = StatusOK
        /\ task[r][i].msg = "warm"
        /\ handler.cfg.overallTimeout = TimeStep
        /\ responses[r][i].status = StatusError
        /\ responses[r][i].message = "warm; context deadline exceeded"
        /\ responses[r][i].duration = DurationString(2 * TimeStep)

(* C5: no early return.  While any dispatched check has not yet stored its
   result, Wait does not return and nothing is written to the response,
   whatever deadline has fired and whether the request is cancelled; and only
   the Checker's own return ends a running check: no deadline, cancellation
   or clock step does. *)
C5_NoEarlyReturnState ==
    \A r \in reqs :
        /\ (\E i \in DOMAIN task[r] : task[r][i].pc # "done")
              => /\ writer[r] = NewWriter
                 /\ pc[r] \in {"dispatch", "wait"}
                 /\ ~ENABLED Join(r)
        /\ pc[r] \in {"joined", "responded", "returned"}
              => \A i \in Slots : /\ task[r][i].pc = "done"
                                  /\ responses[r][i] # ZeroCheckResponse

C5_NoEarlyReturn ==
    /\ []C5_NoEarlyReturnState
    /\ [][\A r \in reqs : \A i \in DOMAIN task[r] :
             (task[r][i].pc = "checking" /\ task'[r][i].pc # "checking")
             => /\ task'[r][i].pc = "returned"
                /\ <<now, reqErr, octx, pc>>' = <<now, reqErr, octx, pc>>]_vars

(* the overall deadline has fired, a tick has passed since, a check is still
   running and the handler is still waiting *)
C5_Witness ==
    \E r \in reqs :
        /\ pc[r] = "wait"
        /\ octx[r].err = DeadlineExceeded
        /\ now >= octx[r].deadline + TimeStep
        /\ writer[r] = NewWriter
        /\ \E i \in DOMAIN task[r] : task[r][i].pc = "checking"
        /\ \E i \in DOMAIN task[r] : task[r][i].pc = "done"

(* C6: failure isolation.  A failing entry makes the aggregate ERROR and the
   code 503; the goroutine of checker i writes slot i only, so a later failure
   or deadline of another check leaves a stored OK entry as it is; and a
   Checker that returned OK under a context of its own that reports no error
   is stored as OK with its message, whatever the other checks did. *)
C6_FailureIsolation ==
    /\ [](\A r \in reqs : Responded(r) =>
             /\ Body(r).checks = responses[r]
             /\ (\E i \in 1..Len(Body(r).checks) : Body(r).checks[i].status # StatusOK)
                   => /\ Body(r).status = StatusError
                      /\ writer[r].code = StatusServiceUnavailable)
    /\ [][\A r \in reqs : \A i \in Slots :
             FinishStep(r, i) =>
                /\ \A j \in Slots \ {i} : responses'[r][j] = responses[r][j]
                /\ (task[r][i].status = StatusOK /\ OwnCtxErr(r, i) = NoErr)
                      => /\ responses'[r][i].status = StatusOK
                         /\ responses'[r][i].message = task[r][i].msg]_vars

(* a fast OK check and a slow check that exceeded its per-check deadline
   afterwards while the overall context is still alive: 503, the fast one OK *)
C6_Witness ==
    \E r \in reqs :
        /\ Responded(r)
        /\ handler.impl = "percheck"
        /\ writer[r].code = StatusServiceUnavailable
        /\ Len(Body(r).checks) = 2
        /\ Body(r).checks[1].status = StatusOK
        /\ Body(r).checks[1].duration = DurationString(0)
        /\ Body(r).checks[2].status = StatusError
        /\ Body(r).checks[2].message = "warm; context deadline exceeded"
        /\ octx[r].err = NoErr
        /\ reqErr[r] = NoErr
        /\ pc[r] = "responded"

(* the options name an overall timeout / a per-check timeout *)
HasOption(kind) == \E k \in DOMAIN handler.opts : handler.opts[k].kind = kind

Running(r, i) == task[r][i].pc \in {"checking", "returned"}

(* checker i of request r answered OK and its result is stored *)
StoredOK(r, i) == task[r][i].pc = "done" /\ task[r][i].status = StatusOK

(* no per-check deadline exists: the current revision, or per-check timeout 0 *)
NoPerCheckDeadline ==
    \/ handler.impl = "current"
    \/ handler.cfg.perCheckTimeout <= 0

(* C7: an overall timeout explicitly set to zero or a negative duration is
   kept as it is (no default replaces it) and imposes no deadline: the checks
   get the request's context itself, with no timer; so, where no per-check
   deadline exists either and the request is not cancelled, a Checker that
   answers OK after any delay is stored as OK with its own message. *)
C7_ZeroOverallTimeoutUnbounded ==
    \A k \in DOMAIN handler.opts :
        (handler.opts[k].kind = "overall" /\ handler.opts[k].d <= 0) =>
            /\ handler.cfg.overallTimeout = handler.opts[k].d
            /\ \A r \in reqs :
                  /\ octx[r] = SameContext(NoDeadline)
                  /\ CtxErr(r) = reqErr[r]
                  /\ (NoPerCheckDeadline /\ reqErr[r] = NoErr) =>
                        \A i \in DOMAIN task[r] :
                           /\ Running(r, i) => CheckCtxErr(r, i) = NoErr
                           /\ StoredOK(r, i) =>
                                 /\ responses[r][i].status = StatusOK
                                 /\ responses[r][i].message = task[r][i].msg

(* WithOverallReadyTimeout of a negative duration, the request alive, and a
   Checker that answered OK two ticks after it was started *)
C7_Witness ==
    \E r \in reqs : \E i \in DOMAIN task[r] :
        /\ handler.impl = "current"
        /\ handler.opts = <<WithOverallReadyTimeout(0 - TimeStep)>>
        /\ reqErr[r] = NoErr
        /\ StoredOK(r, i)
        /\ responses[r][i].status = StatusOK
        /\ responses[r][i].duration = DurationString(2 * TimeStep)

(* C8 as stated: without an overall-timeout option no overall deadline is
   imposed, so with the request alive a Checker that answers OK after any
   delay is stored as OK. *)
C8_NoOptionNoDeadline ==
    \A r \in reqs :
        (handler.impl = "current" /\ ~HasOption("overall") /\ reqErr[r] = NoErr) =>
            \A i \in DOMAIN task[r] :
                StoredOK(r, i) => responses[r][i].status = StatusOK

(* the default overall timeout of the revision: 2 s in both *)
DefaultOverall ==
    IF handler.impl = "current" THEN defaultOverallTimeout ELSE defaultOverallTimeoutV2

C8_DefaultDeadlineState ==
    ~HasOption("overall") =>
        /\ handler.cfg.overallTimeout = DefaultOverall
        /\ \A r \in reqs : pc[r] # "idle" =>
              /\ octx[r].derived
              /\ octx[r].deadline - DefaultOverall >= 0
              /\ octx[r].deadline - DefaultOverall <= now
              /\ octx[r].err = DeadlineExceeded => now >= octx[r].deadline
              /\ (now < octx[r].deadline /\ reqErr[r] = NoErr /\ pc[r] # "returned")
                    => octx[r].err = NoErr
              /\ (now >= octx[r].deadline /\ octx[r].err = NoErr /\ pc[r] # "returned")
                    => TimerDue(octx[r]) /\ ~ENABLED Tick

(* C8, amended: without an overall-timeout option the default overall timeout
   of 2 s is imposed.  The checks run under a context derived from the
   request's whose deadline is 2 s after the handler started; it cannot
   expire before that deadline unless the request is cancelled, and once the
   deadline is reached it has expired or its timer is due and fires before
   the clock advances.  A Checker that answers OK is stored as
   OK when that context (and, in part_002, its per-check child) reports no
   error, and is overridden to ERROR with "context deadline exceeded" once
   the default deadline has fired. *)
C8_DefaultOverallDeadline ==
    /\ []C8_DefaultDeadlineState
    /\ [][\A r \in reqs : \A i \in Slots :
             (~HasOption("overall") /\ FinishStep(r, i)
                 /\ task[r][i].status = StatusOK) =>
                /\ OwnCtxErr(r, i) = NoErr => responses'[r][i].status = StatusOK
                /\ octx[r].err = DeadlineExceeded =>
                      /\ responses'[r][i].status = StatusError
                      /\ responses'[r][i].message \in
                            { DeadlineExceeded,
                              task[r][i].msg \o "; " \o DeadlineExceeded }]_vars

(* no option at all, the request alive: a Checker that answered OK after the
   2 s default deadline is overridden, one that answered at once is OK *)
C8_Witness ==
    \E r \in reqs :
        /\ handler.impl = "current"
        /\ handler.opts = <<>>
        /\ reqErr[r] = NoErr
        /\ Len(responses[r]) = 2
        /\ StoredOK(r, 1)
        /\ StoredOK(r, 2)
        /\ responses[r][1].status = StatusError
        /\ responses[r][1].message = DeadlineExceeded
        /\ now >= defaultOverallTimeout
        /\ responses[r][2].status = StatusOK
        /\ responses[r][2].duration = DurationString(0)

(* a per-check budget is configured: part_002 with perCheckTimeout > 0 *)
PerCheckBudget == handler.impl = "percheck" /\ handler.cfg.perCheckTimeout > 0

C9_CompositionState ==
    PerCheckBudget =>
        \A r \in reqs : \A i \in DOMAIN task[r] : Running(r, i) =>
            LET c == task[r][i].cctx
                budgetEnd == task[r][i].start + handler.cfg.perCheckTimeout
            IN  /\ c.derived
                \* expired with the overall context (deadline or cancellation)
                /\ CtxErr(r) # NoErr => c.err # NoErr
                \* once its deadline is reached it has expired, or the timer that
                \* expires it is due and fires before the clock advances
                /\ (now >= c.deadline /\ c.err = NoErr)
                      => /\ TimerDue(c) \/ TimerDue(octx[r])
                         /\ ~ENABLED Tick
                \* composition: the earlier of the two deadlines
                /\ c.deadline <= budgetEnd
                /\ octx[r].derived => c.deadline <= octx[r].deadline
                /\ c.deadline \in {budgetEnd, octx[r].deadline}
                \* alone it expires by its own budget only, and not early
                /\ (c.err # NoErr /\ CtxErr(r) = NoErr)
                      => c.err = DeadlineExceeded /\ now >= budgetEnd

(* C9: timeout composition.  With a per-check timeout > 0 every running check
   has a context that is a child of the overall context: it has expired
   whenever the overall context has (deadline or request cancellation) and
   whenever its own budget is past, its deadline is the earlier of the two
   and never later than the overall one, and the expiry of one check's
   context changes neither the overall context nor the context of another
   check. *)
C9_TimeoutComposition ==
    /\ []C9_CompositionState
    /\ [][PerCheckBudget =>
            \A r \in reqs :
               \* the overall context expires by its own timer or the request only
               /\ (pc[r] \in {"dispatch", "wait"} /\ CtxErr(r) = NoErr /\ CtxErr(r)' # NoErr)
                     => \/ reqErr'[r] # reqErr[r]
                        \/ octx[r].timer /\ now >= octx[r].deadline
               \* a check's context expires by its own timer or with the overall one
               /\ \A i \in DOMAIN task[r] :
                     (Running(r, i) /\ Running(r, i)'
                         /\ task[r][i].cctx.err = NoErr /\ task'[r][i].cctx.err # NoErr)
                     => \/ /\ task[r][i].cctx.timer
                           /\ now >= task[r][i].cctx.deadline
                           /\ task'[r][i].cctx.err = DeadlineExceeded
                           /\ octx' = octx
                           /\ \A j \in DOMAIN task[r] \ {i} : task'[r][j] = task[r][j]
                        \/ /\ CtxErr(r)' # NoErr
                           /\ task'[r][i].cctx.err = CtxErr(r)']_vars

(* two running checks: the context of the first has expired by its own
   budget, the context of the second (started later) and the overall context
   are alive *)
C9_Witness ==
    \E r \in reqs :
        /\ PerCheckBudget
        /\ octx[r].derived
        /\ Len(task[r]) = 2
        /\ Running(r, 1)
        /\ Running(r, 2)
        /\ task[r][1].cctx.err = DeadlineExceeded
        /\ task[r][2].cctx.err = NoErr
        /\ task[r][2].cctx.timer
        /\ CtxErr(r) = NoErr
        /\ reqErr[r] = NoErr

(* a Checker answered OK and was overridden to ERROR *)
Overridden(r, i) == StoredOK(r, i) /\ responses[r][i].status # StatusOK

(* C10 as stated: with the per-check timeout 0 or not configured at all, no
   check has a deadline of its own, and a Checker that answers OK is
   overridden only when the overall deadline has fired. *)
C10_NoPerCheckNoOverride ==
    \A r \in reqs :
        (\/ handler.impl = "current"
         \/ ~HasOption("percheck")
         \/ handler.cfg.perCheckTimeout = 0) =>
            \A i \in DOMAIN task[r] :
                /\ Running(r, i) => ~task[r][i].cctx.derived
                /\ Overridden(r, i) => octx[r].err = DeadlineExceeded

(* C10, amended: when the per-check timeout is 0 (part_002), and in the
   current revision, which has no per-check timeout, each Checker runs under
   the overall context itself: no per-check context or timer exists, and a
   Checker that answers OK is overridden only when the overall context
   reports an error, that is when the overall deadline has fired or the
   request was cancelled, and then with that error's text.  In part_002 a
   per-check timeout that is not configured is the default of 800 ms, and
   then every check does run under a per-check deadline. *)
C10_PerCheckDisabled ==
    /\ NoPerCheckDeadline =>
          \A r \in reqs : \A i \in DOMAIN task[r] :
              /\ Running(r, i) =>
                    /\ task[r][i].cctx = SameContext(octx[r].deadline)
                    /\ CheckCtxErr(r, i) = CtxErr(r)
              /\ Overridden(r, i) =>
                    /\ CtxErr(r) # NoErr
                    /\ responses[r][i].message =
                          IF task[r][i].msg = "" THEN CtxErr(r)
                          ELSE task[r][i].msg \o "; " \o CtxErr(r)
    /\ (handler.impl = "percheck" /\ ~HasOption("percheck")) =>
          /\ handler.cfg.perCheckTimeout = defaultPerCheckTimeoutV2
          /\ \A r \in reqs : \A i \in DOMAIN task[r] :
                Running(r, i) => task[r][i].cctx.derived

(* WithPerCheckTimeout(0) and an overall timeout of one tick: one Checker
   answered OK before the overall deadline and is OK, the other answered OK
   after it and is overridden by the overall deadline *)
C10_Witness ==
    \E r \in reqs :
        /\ handler.impl = "percheck"
        /\ handler.opts =
              <<WithOverallReadyTimeout(TimeStep), WithPerCheckTimeout(0)>>
        /\ reqErr[r] = NoErr
        /\ Len(task[r]) = 2
        /\ StoredOK(r, 1)
        /\ responses[r][1].status = StatusOK
        /\ Overridden(r, 2)
        /\ responses[r][2].message = DeadlineExceeded
        /\ responses[r][2].duration = DurationString(TimeStep)

(* C11: a readiness handler configured with zero Checkers answers with the
   aggregate status OK, HTTP 200 and an empty sequence of checks, whatever
   the timeouts and whether or not the request was cancelled. *)
C11_NoCheckersOK ==
    \A r \in reqs :
        (NumCheckers = 0 /\ pc[r] \in {"responded", "returned"}) =>
            /\ Responded(r)
            /\ Body(r).status = StatusOK
            /\ Body(r).checks = <<>>
            /\ writer[r].code = StatusOKCode

(* no Checker, the request cancelled before the handler ran: still 200 *)
C11_Witness ==
    \E r \in reqs :
        /\ handler.checkers = <<>>
        /\ reqErr[r] = Canceled
        /\ Responded(r)
        /\ writer[r].code = StatusOKCode

(* C12: a Checker that returns ERROR has its status and its message stored
   as returned: the message is neither replaced by nor concatenated with a
   deadline or cancellation text, even when the context the check ran under
   has expired or was cancelled by then; and the response carries it so. *)
C12_ErrorVerbatim ==
    /\ [][\A r \in reqs : \A i \in Slots :
             (FinishStep(r, i) /\ task[r][i].status = StatusError) =>
                /\ responses'[r][i].status = StatusError
                /\ responses'[r][i].message = task[r][i].msg]_vars
    /\ [](\A r \in reqs : \A i \in DOMAIN task[r] :
             (Responded(r) /\ task[r][i].status = StatusError) =>
                /\ Body(r).checks[i].status = StatusError
                /\ Body(r).checks[i].message = task[r][i].msg)

(* a Checker that answered ERROR "down" two ticks after its start, one tick
   after the overall deadline had fired: stored as ERROR "down" *)
C12_Witness ==
    \E r \in reqs : \E i \in DOMAIN task[r] :
        /\ handler.cfg.overallTimeout = TimeStep
        /\ octx[r].err = DeadlineExceeded
        /\ task[r][i].pc = "done"
        /\ task[r][i].status = StatusError
        /\ responses[r][i].status = StatusError
        /\ responses[r][i].message = "down"
        /\ responses[r][i].duration = DurationString(2 * TimeStep)

(* C13: when the context of the inbound request is cancelled already as the
   handler runs, every check whose Checker answers OK is stored as ERROR
   with the cancellation text (alone, or appended to the Checker's message),
   whenever the Checker answers; so with at least one Checker the response
   is 503 with the aggregate status ERROR. *)
C13_CancelledRequest ==
    \A r \in reqs :
        /\ reqErr[r] = Canceled
        /\ \A i \in DOMAIN task[r] :
              (task[r][i].pc = "done" /\ task[r][i].status = StatusOK) =>
                 /\ responses[r][i].status = StatusError
                 /\ responses[r][i].message =
                       IF task[r][i].msg = "" THEN Canceled
                       ELSE task[r][i].msg \o "; " \o Canceled
        /\ (Responded(r) /\ NumCheckers >= 1) =>
              /\ Body(r).status = StatusError
              /\ writer[r].code = StatusServiceUnavailable
              /\ \A i \in Slots : Body(r).checks[i].status = StatusError

(* both Checkers answered OK, one at once and one a tick later: 503 *)
C13_Witness ==
    \E r \in reqs :
        /\ reqErr[r] = Canceled
        /\ Responded(r)
        /\ writer[r].code = StatusServiceUnavailable
        /\ Len(task[r]) = 2
        /\ task[r][1].status = StatusOK /\ task[r][1].msg = ""
        /\ task[r][2].status = StatusOK /\ task[r][2].msg = "warm"
        /\ Body(r).checks[1].message = Canceled
        /\ Body(r).checks[1].duration = DurationString(0)
        /\ Body(r).checks[2].message = "warm; " \o Canceled
        /\ Body(r).checks[2].duration = DurationString(TimeStep)

(* what belongs to the invocation serving request r *)
Invocation(r) ==
    <<pc[r], reqErr[r], octx[r], idx[r], wg[r], responses[r], task[r], writer[r]>>

(* C14: concurrent readiness requests on one handler are independent: each
   response holds exactly the results of the checks run for that request,
   and no step taken for one request (a check's start, answer or stored
   result, a fired deadline, a cancellation, the response) changes anything
   of another invocation. *)
C14_RequestsIndependent ==
    /\ [](\A r \in reqs : Responded(r) =>
             /\ Body(r).checks = responses[r]
             /\ Len(Body(r).checks) = NumCheckers
             /\ \A i \in Slots :
                   /\ task[r][i].pc = "done"
                   /\ Body(r).checks[i].name = handler.checkers[i]
                   /\ \E err \in {NoErr, DeadlineExceeded} \cup {reqErr[r]} :
                         LET rec == Reconciled(task[r][i].status, task[r][i].msg, err)
                         IN  /\ Body(r).checks[i].status = rec.status
                             /\ Body(r).checks[i].message = rec.message)
    /\ [][\A r \in reqs : \A q \in reqs \ {r} :
             Invocation(r)' # Invocation(r) => Invocation(q)' = Invocation(q)]_vars

(* one request timed out on an OK answer that came late, the other was
   cancelled after its check had been stored as OK "warm" *)
C14_Witness ==
    \E r \in reqs : \E q \in reqs \ {r} :
        /\ Responded(r) /\ Responded(q)
        /\ reqErr[r] = NoErr /\ reqErr[q] = Canceled
        /\ task[r][1].status = StatusOK
        /\ Body(r).checks[1].message = DeadlineExceeded
        /\ writer[r].code = StatusServiceUnavailable
        /\ Body(q).checks[1].status = StatusOK
        /\ Body(q).checks[1].message = "warm"
        /\ writer[q].code = StatusOKCode

(* C15: the unit of work of checker i writes slot i of the results and no
   other, each slot is written exactly once (it is unwritten before that
   write and no later step changes it), and the aggregator reads the results
   only after all units have finished, from when on they do not change. *)
C15_DisjointSlotWrites ==
    /\ [][\A r \in reqs : \A j \in DOMAIN responses[r] :
             responses'[r][j] # responses[r][j] =>
                /\ FinishStep(r, j)
                /\ responses[r][j] = ZeroCheckResponse
                /\ \A k \in DOMAIN task[r] \ {j} : task'[r][k] = task[r][k]]_vars
    /\ [](\A r \in reqs : \A j \in DOMAIN task[r] :
             /\ task[r][j].pc = "done" <=> responses[r][j] # ZeroCheckResponse
             /\ pc[r] \in {"joined", "responded", "returned"} =>
                   task[r][j].pc = "done")
    /\ [][\A r \in reqs :
             pc[r] \in {"joined", "responded", "returned"} =>
                responses'[r] = responses[r]]_vars

(* still waiting: the second unit has written its slot, the first one is
   still inside Check and its slot is unwritten *)
C15_Witness ==
    \E r \in reqs :
        /\ pc[r] = "wait"
        /\ Len(task[r]) = 2
        /\ task[r][1].pc = "checking"
        /\ responses[r][1] = ZeroCheckResponse
        /\ task[r][2].pc = "done"
        /\ responses[r][2].name = handler.checkers[2]

(* C16: within one readiness invocation the Check of every configured
   Checker is invoked exactly once: a unit that has started has called it
   once, never twice, also when the overall context had expired or was
   cancelled before the unit started or another check has failed; and when
   the handler has joined, every Checker has been called once. *)
C16_CheckInvokedOnce ==
    \A r \in reqs :
        /\ \A i \in DOMAIN task[r] :
              /\ task[r][i].calls \in {0, 1}
              /\ task[r][i].calls = 1
                    <=> task[r][i].pc \in {"checking", "returned", "done"}
        /\ pc[r] \in {"joined", "responded", "returned"} =>
              /\ Len(task[r]) = NumCheckers
              /\ \A i \in Slots : task[r][i].calls = 1

(* the first check has failed and the overall deadline fired a tick ago; the
   second unit started only then and is inside Check all the same *)
C16_Witness ==
    \E r \in reqs :
        /\ Len(task[r]) = 2
        /\ task[r][1].pc = "done"
        /\ responses[r][1].status = StatusError
        /\ octx[r].err = DeadlineExceeded
        /\ task[r][2].pc = "checking"
        /\ task[r][2].start > octx[r].deadline
        /\ task[r][2].calls = 1

(* a step of the liveness handler *)
LiveStep == live' # live

(* C17: the liveness endpoint answers 200 with status OK for every handler
   configuration and every state of the Checkers and of a readiness request
   in flight: it can always answer, and answering it invokes no Checker and
   touches nothing of the readiness aggregation. *)
C17_LivenessAlwaysOK ==
    /\ [](/\ live.pc = "idle" => ENABLED LiveHandler
          /\ live.pc = "returned" =>
                /\ live.writer.code = StatusOKCode
                /\ live.writer.body # <<>>
                /\ live.writer.body[1].status = StatusOK)
    /\ [][LiveStep =>
             /\ live.pc = "idle" /\ live'.pc = "returned"
             /\ <<task, responses, wg, pc, octx, reqErr, writer>>'
                   = <<task, responses, wg, pc, octx, reqErr, writer>>]_vars

(* the only Checker failed at once, a tick later the liveness endpoint
   answered 200 OK, and the readiness request was answered with 503 *)
C17_Witness ==
    \E r \in reqs :
        /\ handler.impl = "percheck"
        /\ Len(responses[r]) = 1
        /\ responses[r][1].status = StatusError
        /\ responses[r][1].duration = DurationString(0)
        /\ writer[r].code = StatusServiceUnavailable
        /\ live.pc = "returned"
        /\ live.writer.code = StatusOKCode
        /\ live.writer.body[1].status = StatusOK
        /\ live.writer.body[1].uptime = DurationString(TimeStep)

(* the events logged for the request with context ctx *)
EventsOf(ctx) == SelectSeq(logs, LAMBDA e : e.ctx = ctx)

(* the handler of request r has run the encoder and it failed *)
ReadyEncodeFailed(r) ==
    pc[r] \in {"responded", "returned"} /\ writer[r].encodeErr # NoErr

LiveEncodeFailed == live.pc = "returned" /\ live.writer.encodeErr # NoErr

(* the one log event of a failed encoding *)
IsFailureEvent(e, route, w) ==
    /\ e.level = "ERROR"
    /\ e.route = route
    /\ e.status = w.code
    /\ e.error = w.encodeErr

(* C18 as stated: whenever the JSON encoding of a readiness or liveness
   response fails, exactly one structured log event carrying the route, the
   intended status code and the error has been emitted for it. *)
C18_EncodeFailureLogged ==
    /\ \A r \in reqs : ReadyEncodeFailed(r) =>
          /\ Len(EventsOf(r)) = 1
          /\ IsFailureEvent(EventsOf(r)[1], "/health/ready", writer[r])
    /\ LiveEncodeFailed =>
          /\ Len(EventsOf("live")) = 1
          /\ IsFailureEvent(EventsOf("live")[1], "/health/live", live.writer)

(* C18, amended: a failed encoding is logged by the handlers of part_002
   only, as exactly one ERROR event with the route, the status code that was
   written and the error; respondJSON of src/health.go discards the error and
   logs nothing.  Nothing is logged for an encoding that succeeded.  In both
   revisions the handler returns all the same and the status code written
   before the encoding stays. *)
C18_EncodeFailureHandling ==
    /\ [](/\ \A r \in reqs :
                /\ (ReadyEncodeFailed(r) /\ handler.impl = "percheck") =>
                      /\ Len(EventsOf(r)) = 1
                      /\ IsFailureEvent(EventsOf(r)[1], "/health/ready", writer[r])
                /\ ~(ReadyEncodeFailed(r) /\ handler.impl = "percheck") =>
                      EventsOf(r) = <<>>
                /\ pc[r] = "responded" => ENABLED Return(r)
                /\ ReadyEncodeFailed(r) =>
                      writer[r].code = StatusCode(Body(r).status)
          /\ (LiveEncodeFailed /\ handler.impl = "percheck") =>
                /\ Len(EventsOf("live")) = 1
                /\ IsFailureEvent(EventsOf("live")[1], "/health/live", live.writer)
                /\ live.writer.code = StatusOKCode
          /\ ~(LiveEncodeFailed /\ handler.impl = "percheck") =>
                EventsOf("live") = <<>>
          /\ handler.impl = "current" => logs = <<>>)
    /\ [][/\ \A r \in reqs : writer[r].code # 0 => writer'[r] = writer[r]
          /\ live.writer.code # 0 => live' = live]_vars

(* part_002: the encoding of a 503 readiness response failed, the handler
   has returned and the one event with status 503 is in the log *)
C18_Witness ==
    \E r \in reqs :
        /\ handler.impl = "percheck"
        /\ pc[r] = "returned"
        /\ writer[r].encodeErr = BrokenPipe
        /\ writer[r].code = StatusServiceUnavailable
        /\ Len(EventsOf(r)) = 1
        /\ EventsOf(r)[1].status = StatusServiceUnavailable
        /\ EventsOf(r)[1].route = "/health/ready"
        /\ EventsOf(r)[1].error = BrokenPipe

(* C19: every stored check result has a non-empty duration, whether the
   Checker answered OK, answered ERROR or was overridden; the duration is
   the textual form of the time from a clock reading taken no later than the
   invocation of Check (and kept while it runs) to a reading taken when the
   result is stored, after Check has returned; the clock never goes back. *)
C19_DurationCoversCheck ==
    /\ [](\A r \in reqs : \A i \in DOMAIN task[r] :
             /\ task[r][i].pc = "done" => responses[r][i].duration # ""
             /\ Responded(r) => Body(r).checks[i].duration # "")
    /\ [][/\ now' >= now
          /\ \A r \in reqs : \A i \in DOMAIN task[r] :
                /\ (task[r][i].calls = 0 /\ task'[r][i].calls = 1) =>
                      task'[r][i].start = now
                /\ (task[r][i].pc = "checking" /\ task'[r][i].pc = "returned") =>
                      task'[r][i].start = task[r][i].start
                /\ FinishStep(r, i) =>
                      /\ now >= task[r][i].start
                      /\ responses'[r][i].duration =
                            DurationString(now - task[r][i].start)]_vars

(* the first Checker answered OK after the overall deadline and took one
   tick, the second answered ERROR and took two: "1s" and "2s" *)
C19_Witness ==
    \E r \in reqs :
        /\ Responded(r)
        /\ Len(Body(r).checks) = 2
        /\ Overridden(r, 1)
        /\ Body(r).checks[1].duration = "1s"
        /\ task[r][2].status = StatusError
        /\ Body(r).checks[2].duration = "2s"

(* the headers that went out with the status line of w disable caching *)
SentNoCache(w) ==
    /\ <<"Cache-Control", "no-store, no-cache">> \in w.sent
    /\ <<"Pragma", "no-cache">> \in w.sent
    /\ <<"Expires", "Thu, 01 Jan 1970 00:00:00 GMT">> \in w.sent
    /\ \A h \in w.sent : \A c \in CacheHeaders : h[1] = c[1] => h = c

(* C20: every liveness and every readiness response, 200 or 503, whether or
   not its encoding succeeded, went out with Cache-Control "no-store,
   no-cache", Pragma "no-cache" and the Expires date of the epoch, each with
   that value only: they were in the header map when the status line was
   written.  Before the status line nothing has been sent. *)
C20_CacheHeadersSent ==
    /\ \A r \in reqs :
          /\ writer[r].code # 0 => SentNoCache(writer[r])
          /\ writer[r].code = 0 => writer[r].sent = {}
          /\ pc[r] \in {"responded", "returned"} =>
                writer[r].code \in {StatusOKCode, StatusServiceUnavailable}
    /\ live.writer.code # 0 => SentNoCache(live.writer)
    /\ live.writer.code = 0 => live.writer.sent = {}
    /\ live.pc = "returned" => live.writer.code = StatusOKCode

(* a 503 readiness response and a 200 liveness response, both sent with the
   three headers and the content type *)
C20_Witness ==
    \E r \in reqs :
        /\ writer[r].code = StatusServiceUnavailable
        /\ writer[r].sent = CacheHeaders \cup {<<"Content-Type", "application/json">>}
        /\ live.writer.code = StatusOKCode
        /\ live.writer.sent = writer[r].sent
        /\ Cardinality(live.writer.sent) = 4

(* C21: BasicAuth calls the wrapped handler if and only if the request
   carries Basic credentials whose username and password both equal the
   configured ones, and then exactly once; otherwise the wrapped handler is
   not called and the response is 401 with a WWW-Authenticate header naming
   the configured realm, "Restricted" when the realm was configured empty. *)
C21_BasicAuthGate ==
    (mw.kind = "basicauth" /\ mw.pc = "returned") =>
        LET granted == /\ mw.auth.scheme = "Basic"
                       /\ mw.auth.valid
                       /\ mw.auth.username = mw.cfg.username
                       /\ mw.auth.password = mw.cfg.password
            realm == IF mw.realmArg = "" THEN "Restricted" ELSE mw.realmArg
        IN  /\ mw.nextCalls = IF granted THEN 1 ELSE 0
            /\ granted => mw.writer.code = StatusOKCode
            /\ ~granted =>
                  /\ mw.writer.code = StatusUnauthorized
                  /\ <<"WWW-Authenticate", "Basic realm=\"" \o realm \o "\"">>
                        \in mw.writer.sent
                  /\ mw.writer.body = <<Unauthorized("authentication required")>>

(* empty configured credentials and realm, a request without credentials:
   rejected with the default realm *)
C21_Witness ==
    /\ mw.kind = "basicauth"
    /\ mw.pc = "returned"
    /\ mw.cfg.username = "" /\ mw.cfg.password = "" /\ mw.realmArg = ""
    /\ mw.auth.scheme = "none"
    /\ mw.nextCalls = 0
    /\ mw.writer.code = StatusUnauthorized
    /\ <<"WWW-Authenticate", "Basic realm=\"Restricted\"">> \in mw.writer.sent

(* C22 as stated: when the wrapped handler panics, the panic does not reach
   the caller, one "panic recovered" event is logged and the response is a
   500 problem; when it does not panic its response is what it wrote and
   nothing is logged. *)
C22_RecoveryAnswers500 ==
    (mw.kind = "recovery" /\ mw.pc = "returned") =>
        /\ mw.panicking = NoPanic
        /\ Panics(mw.script) =>
              /\ Len(mw.log) = 1
              /\ mw.log[1].msg = "panic recovered"
              /\ mw.writer.code = StatusInternalServerError
              /\ mw.writer.body = <<InternalServerError("internal server error")>>
        /\ ~Panics(mw.script) =>
              /\ mw.writer = Play(NewWriter, mw.script)
              /\ mw.log = <<>>

(* C22, amended: when the wrapped handler panics, the panic does not reach
   the caller and exactly one "panic recovered" event with the panic value,
   the method and the path is logged; RespondProblem is then applied to the
   writer as the handler left it, so the response is the 500 problem only if
   the handler had not written its status line: a status line already
   written stays, and the problem document follows the body written so far.
   When the handler does not panic its response is what it wrote and nothing
   is logged. *)
C22_RecoveryContainsPanic ==
    (mw.kind = "recovery" /\ mw.pc = "returned") =>
        LET left == Play(NewWriter, mw.script)
            problem == InternalServerError("internal server error")
        IN  /\ mw.panicking = NoPanic
            /\ Panics(mw.script) =>
                  /\ Len(mw.log) = 1
                  /\ mw.log[1].msg = "panic recovered"
                  /\ mw.log[1].error \in PanicValues
                  /\ mw.log[1].method = mw.method
                  /\ mw.log[1].path = mw.path
                  /\ mw.writer.code =
                        IF left.code = 0 THEN StatusInternalServerError ELSE left.code
                  /\ mw.writer.sent = IF left.code = 0
                        THEN {<<"Content-Type", "application/problem+json">>}
                        ELSE left.sent
                  /\ mw.writer.body = Append(left.body, problem)
            /\ ~Panics(mw.script) =>
                  /\ mw.writer = left
                  /\ mw.log = <<>>

(* the handler panicked before writing anything: 500, one event *)
C22_Witness ==
    /\ mw.kind = "recovery"
    /\ mw.pc = "returned"
    /\ mw.script = <<"panic">>
    /\ mw.path = "/panic"
    /\ mw.writer.code = StatusInternalServerError
    /\ mw.writer.body = <<InternalServerError("internal server error")>>
    /\ Len(mw.log) = 1
    /\ mw.log[1].error = "something went wrong"

(* a Check of this request has panicked *)
CheckPanicked(r) == \E i \in DOMAIN task[r] : task[r][i].pc = "panicked"

(* C23 as stated: with the readiness handler wrapped in Recovery, a panic
   inside a Checker's Check is recovered by the middleware: the process keeps
   running, and when the middleware has returned it has logged the panic and
   answered 500. *)
C23_CheckPanicRecovered ==
    \A r \in reqs : CheckPanicked(r) =>
        /\ proc = "running"
        /\ mw.pc = "returned" =>
              /\ Len(mw.log) = 1
              /\ writer[r].code = StatusInternalServerError

(* C24: the readiness status code is committed before the body is encoded.
   The status line is written once, in the step that follows the join, with
   the code of the aggregate status computed from the joined results; no
   later step changes it, and whether the encoding of the body succeeds or
   fails the code is the same: 200 for OK, 503 otherwise. *)
C24_StatusCommittedBeforeBody ==
    /\ [](\A r \in reqs :
             /\ writer[r].code # 0 =>
                   /\ pc[r] \in {"responded", "returned"}
                   /\ writer[r].code = StatusCode(overallStatus(responses[r]))
                   /\ writer[r].body = <<ReadyResponse(r)>>
             /\ (writer[r].code # 0 /\ writer[r].encodeErr # NoErr) =>
                   (writer[r].code = StatusOKCode
                       <=> \A i \in Slots : responses[r][i].status = StatusOK))
    /\ [][\A r \in reqs :
             /\ writer[r].code # 0 => writer'[r] = writer[r]
             /\ writer'[r].code # writer[r].code =>
                   pc[r] = "joined" /\ pc'[r] = "responded"]_vars

(* src/health.go: the encoding of a 503 response failed and of a 200
   response could fail as well; the 503 stays *)
C24_Witness ==
    \E r \in reqs :
        /\ handler.impl = "current"
        /\ pc[r] = "returned"
        /\ writer[r].encodeErr = BrokenPipe
        /\ writer[r].code = StatusServiceUnavailable
        /\ Body(r).status = StatusError
        /\ logs = <<>>

(* C25: only equality with OK matters.  A Checker's status other than OK,
   ERROR or any other value, is stored as returned with its message also
   when the context has expired (no override), makes the aggregate status
   ERROR and the code 503; the aggregate status is always OK or ERROR. *)
C25_OnlyOKCounts ==
    /\ [](\A r \in reqs : Responded(r) =>
             /\ Body(r).status \in {StatusOK, StatusError}
             /\ Body(r).status = StatusOK <=> writer[r].code = StatusOKCode
             /\ \A i \in Slots :
                   task[r][i].status # StatusOK =>
                      /\ Body(r).checks[i].status = task[r][i].status
                      /\ Body(r).checks[i].message = task[r][i].msg
                      /\ Body(r).status = StatusError
                      /\ writer[r].code = StatusServiceUnavailable)
    /\ [][\A r \in reqs : \A i \in Slots :
             (FinishStep(r, i) /\ task[r][i].status # StatusOK) =>
                /\ responses'[r][i].status = task[r][i].status
                /\ responses'[r][i].message = task[r][i].msg]_vars

(* the only failing entry is "degraded", answered two ticks after the start
   and one after the overall deadline: stored as it is, aggregate ERROR, 503 *)
C25_Witness ==
    \E r \in reqs :
        /\ Responded(r)
        /\ Len(Body(r).checks) = 2
        /\ octx[r].err = DeadlineExceeded
        /\ Body(r).checks[1].status = StatusOK
        /\ Body(r).checks[2].status = "degraded"
        /\ Body(r).checks[2].message = "slow"
        /\ Body(r).checks[2].duration = DurationString(2 * TimeStep)
        /\ Body(r).status = StatusError
        /\ writer[r].code = StatusServiceUnavailable

----------------------------------------------------------------------------
(* The Server of src/server.go: NewServer, Run, start and stop *)

defaultShutdownTimeout == 20000
defaultSignalBuffer == 1
defaultErrorBuffer == 1

(* the durations handed to WithShutdownTimeout *)
ShutdownChoices == {0, TimeStep}

(* at most this many signals are sent to the process *)
MaxSignals == 2

Signals == {"interrupt", "terminated"}

WithShutdownTimeout(timeout) == [kind |-> "shutdown", d |-> timeout]
WithTLS == [kind |-> "tls"]

ServerOptionLists ==
    {<<>>, <<WithTLS>>}
    \cup {<<WithShutdownTimeout(d)>> : d \in ShutdownChoices}

ApplyServerOption(server, o) ==
    IF o.kind = "shutdown" THEN [server EXCEPT !.shutdownTimeout = o.d]
    ELSE [server EXCEPT !.useTLS = TRUE]

RECURSIVE ApplyServerOptions(_, _)
ApplyServerOptions(server, opts) ==
    IF opts = <<>> THEN server
    ELSE ApplyServerOptions(ApplyServerOption(server, Head(opts)), Tail(opts))

(* errors are chains: fmt.Errorf("...: %w", err) puts a text in front of err *)
ErrServerClosed == <<"http: Server closed">>
ListenErrors == {<<"listen tcp: bind: address already in use">>,
                 <<"accept tcp: use of closed network connection">>}
NilError == <<>>

Wrap(text, err) == <<text>> \o err

ErrorsIsShallow(err, target) == err = target

(* errors.Is: err or an error it wraps is the target *)
ErrorsIs(err, target) ==
    \E i \in 1..Len(err) : SubSeq(err, i, Len(err)) = target

(* what start returns when ListenAndServe or ListenAndServeTLS returned err *)
StartError(server, err) ==
    IF server.useTLS THEN Wrap("failed to start TLS server", err)
    ELSE Wrap("failed to start HTTP server", err)

(* the goroutine of Run forwards the error of start *)
Forwards(err) == err # NilError /\ ~ErrorsIs(err, ErrServerClosed)

(* NewServer(handler, opts...), Run not yet called *)
NewServer(opts) ==
    [kind |-> "server",
     opts |-> opts,
     cfg |-> ApplyServerOptions(
                [useTLS |-> FALSE, shutdownTimeout |-> defaultShutdownTimeout],
                opts),
     http |-> "new",          \* the embedded http.Server: new, listening, shutdown
     run |-> "idle",          \* Run: idle, spawned, select, signalled, stopping,
                              \*      returned, exited
     go |-> "none",           \* the goroutine of start: none, starting, serving,
                              \*      back, sending, done
     startErr |-> NilError,   \* what start returned
     serverErrors |-> <<>>,   \* the channel of capacity defaultErrorBuffer
     shutdown |-> <<>>,       \* the channel of capacity defaultSignalBuffer
     notified |-> FALSE,      \* signal.Notify is in force for shutdown
     signals |-> 0,           \* signals sent to the process so far
     received |-> "",         \* the signal Run took from shutdown
     stops |-> <<>>,          \* the timeouts stop was called with
     deadline |-> NoDeadline, \* the deadline of the context of stop
     stopErr |-> NilError,    \* what stop returned
     inflight |-> 0,          \* requests being served
     clock |-> 0,
     log |-> <<>>]

InitServer ==
    /\ InitReady({}, {})
    /\ handler \in HandlersBare
    /\ mw = NoMiddleware
    /\ proc = "running"
    /\ srv \in {NewServer(o) : o \in ServerOptionLists}

(* Run up to the select: the error channel, the goroutine *)
RunCall ==
    /\ srv.run = "idle"
    /\ srv' = [srv EXCEPT !.run = "spawned", !.go = "starting"]
    /\ UNCHANGED <<readyVars, mw, proc>>

(* signal.Notify(shutdown, SIGINT, SIGTERM) *)
RunNotify ==
    /\ srv.run = "spawned"
    /\ srv' = [srv EXCEPT !.run = "select", !.notified = TRUE]
    /\ UNCHANGED <<readyVars, mw, proc>>

(* case err := <-serverErrors: signal.Stop, log, os.Exit(1) *)
RunSelectError ==
    /\ srv.run = "select"
    /\ srv.serverErrors # <<>>
    /\ srv' = [srv EXCEPT !.run = "exited", !.notified = FALSE,
                          !.serverErrors = Tail(@),
                          !.log = Append(@, <<"server error", Head(srv.serverErrors)>>)]
    /\ proc' = "exit status 1"
    /\ UNCHANGED <<readyVars, mw>>

(* case sig := <-shutdown: signal.Stop, log *)
RunSelectSignal ==
    /\ srv.run = "select"
    /\ srv.shutdown # <<>>
    /\ srv' = [srv EXCEPT !.run = "signalled", !.notified = FALSE,
                          !.shutdown = Tail(@), !.received = Head(srv.shutdown),
                          !.log = Append(@, <<"received shutdown signal",
                                              <<Head(srv.shutdown)>> >>)]
    /\ UNCHANGED <<readyVars, mw, proc>>

(* server.stop() up to and into server.Shutdown(ctx): the context gets
   shutdownTimeout, Shutdown closes the listener at once *)
RunStop ==
    /\ srv.run = "signalled"
    /\ srv' = [srv EXCEPT !.run = "stopping", !.http = "shutdown",
                          !.stops = Append(@, srv.cfg.shutdownTimeout),
                          !.deadline = srv.clock + srv.cfg.shutdownTimeout]
    /\ UNCHANGED <<readyVars, mw, proc>>

(* Shutdown finds no connection in use: stop returns nil, Run returns *)
ShutdownDone ==
    /\ srv.run = "stopping"
    /\ srv.inflight = 0
    /\ srv' = [srv EXCEPT !.run = "returned",
                          !.log = Append(@, <<"server stopped gracefully", NilError>>)]
    /\ UNCHANGED <<readyVars, mw, proc>>

(* the context of stop expires with a connection still in use: Shutdown
   returns ctx.Err(), stop wraps it, Run logs and exits *)
ShutdownExpired ==
    /\ srv.run = "stopping"
    /\ srv.inflight > 0
    /\ srv.deadline <= srv.clock
    /\ LET err == Wrap("shutdown failed", <<DeadlineExceeded>>)
       IN  srv' = [srv EXCEPT !.run = "exited", !.stopErr = err,
                     !.log = Append(@, <<"failed to stop server gracefully", err>>)]
    /\ proc' = "exit status 1"
    /\ UNCHANGED <<readyVars, mw>>

(* start: ListenAndServe / ListenAndServeTLS is entered; it listens, or
   fails to, or finds the server shut down already *)
GoListen ==
    /\ srv.go = "starting"
    /\ \/ /\ srv.http = "new"
          /\ srv' = [srv EXCEPT !.go = "serving", !.http = "listening"]
       \/ /\ srv.http = "new"
          /\ \E err \in ListenErrors :
                srv' = [srv EXCEPT !.go = "back",
                                   !.startErr = StartError(srv.cfg, err)]
       \/ /\ srv.http = "shutdown"
          /\ srv' = [srv EXCEPT !.go = "back",
                                !.startErr = StartError(srv.cfg, ErrServerClosed)]
    /\ UNCHANGED <<readyVars, mw, proc>>

(* Serve returns: the listener failed, or Shutdown closed it *)
GoServeReturns ==
    /\ srv.go = "serving"
    /\ \/ /\ srv.http = "listening"
          /\ \E err \in ListenErrors :
                srv' = [srv EXCEPT !.go = "back",
                                   !.startErr = StartError(srv.cfg, err)]
       \/ /\ srv.http = "shutdown"
          /\ srv' = [srv EXCEPT !.go = "back",
                                !.startErr = StartError(srv.cfg, ErrServerClosed)]
    /\ UNCHANGED <<readyVars, mw, proc>>

(* if err != nil && !errors.Is(err, http.ErrServerClosed) *)
GoDecide ==
    /\ srv.go = "back"
    /\ srv' = [srv EXCEPT !.go = IF Forwards(srv.startErr) THEN "sending" ELSE "done"]
    /\ UNCHANGED <<readyVars, mw, proc>>

(* serverErrors <- err, possible while the channel has room *)
GoSend ==
    /\ srv.go = "sending"
    /\ Len(srv.serverErrors) < defaultErrorBuffer
    /\ srv' = [srv EXCEPT !.go = "done", !.serverErrors = Append(@, srv.startErr)]
    /\ UNCHANGED <<readyVars, mw, proc>>

(* SIGINT or SIGTERM is sent to the process: relayed to the channel if it
   has room while Notify is in force, dropped if it has none, and otherwise
   the runtime ends the process *)
SignalArrives ==
    /\ srv.signals < MaxSignals
    /\ \E sig \in Signals :
          IF srv.notified
          THEN /\ srv' = [srv EXCEPT !.signals = @ + 1,
                            !.shutdown = IF Len(@) < defaultSignalBuffer
                                         THEN Append(@, sig) ELSE @]
               /\ proc' = proc
          ELSE /\ srv' = [srv EXCEPT !.signals = @ + 1]
               /\ proc' = "signal: " \o sig
    /\ UNCHANGED <<readyVars, mw>>

(* a request arrives at the listening server *)
ConnBegin ==
    /\ srv.http = "listening"
    /\ srv.go = "serving"
    /\ srv.inflight = 0
    /\ srv' = [srv EXCEPT !.inflight = 1]
    /\ UNCHANGED <<readyVars, mw, proc>>

(* a request is answered and its connection becomes idle *)
ConnEnd ==
    /\ srv.inflight > 0
    /\ srv' = [srv EXCEPT !.inflight = @ - 1]
    /\ UNCHANGED <<readyVars, mw, proc>>

(* time passes while Shutdown waits *)
ServerTick ==
    /\ srv.run = "stopping"
    /\ srv.clock < srv.deadline
    /\ srv' = [srv EXCEPT !.clock = @ + TimeStep]
    /\ UNCHANGED <<readyVars, mw, proc>>

NextServer ==
    \/ proc = "running" /\ RunCall
    \/ proc = "running" /\ RunNotify
    \/ proc = "running" /\ RunSelectError
    \/ proc = "running" /\ RunSelectSignal
    \/ proc = "running" /\ RunStop
    \/ proc = "running" /\ ShutdownDone
    \/ proc = "running" /\ ShutdownExpired
    \/ proc = "running" /\ GoListen
    \/ proc = "running" /\ GoServeReturns
    \/ proc = "running" /\ GoDecide
    \/ proc = "running" /\ GoSend
    \/ proc = "running" /\ SignalArrives
    \/ proc = "running" /\ ConnBegin
    \/ proc = "running" /\ ConnEnd
    \/ proc = "running" /\ ServerTick

(* the goroutine of Run and the goroutine of start keep running while they
   can, and time passes; signals, listener failures and requests come as
   they like *)
SpecServer ==
    /\ InitServer
    /\ [][NextServer]_vars
    /\ WF_vars(proc = "running" /\ RunNotify)
    /\ WF_vars(proc = "running" /\ RunSelectError)
    /\ WF_vars(proc = "running" /\ RunSelectSignal)
    /\ WF_vars(proc = "running" /\ RunStop)
    /\ WF_vars(proc = "running" /\ ShutdownDone)
    /\ WF_vars(proc = "running" /\ ShutdownExpired)
    /\ WF_vars(proc = "running" /\ GoDecide)
    /\ WF_vars(proc = "running" /\ GoSend)
    /\ WF_vars(proc = "running" /\ ServerTick)

(* the names of the entries of a response, in order *)
NamesOf(checks) == [i \in DOMAIN checks |-> checks[i].name]

(* C26: no step of any invocation, alone or concurrent with another,
   changes what the handler was constructed with: the Checker list, the
   option list and the timeouts derived from it, the version and the
   environment.  So every invocation runs one unit per Checker of that list
   and reports them in its order, and src/health.go echoes the constructed
   version and environment in every response whatever the outcome (the
   response of part_002 has no such fields). *)
C26_ConfigurationImmutable ==
    /\ [][handler' = handler]_vars
    /\ [](/\ handler \in HandlersConc
          /\ handler.cfg = IF handler.impl = "current"
                           THEN ReadyConfigCurrent(handler.opts)
                           ELSE ReadyConfigPerCheck(handler.opts)
          /\ \A r \in reqs :
                /\ pc[r] # "idle" => Len(task[r]) = Len(handler.checkers)
                /\ Responded(r) =>
                      /\ NamesOf(Body(r).checks) = handler.checkers
                      /\ handler.impl = "current" =>
                            /\ Body(r).version = handler.version
                            /\ Body(r).environment = handler.environment
                      /\ handler.impl = "percheck" =>
                            DOMAIN Body(r) = {"status", "checks"})

(* two requests on the handler of src/health.go answered differently, 200
   and 503, with the same Checker, version and environment *)
C26_Witness ==
    \E r \in reqs : \E q \in reqs \ {r} :
        /\ handler.impl = "current"
        /\ pc[r] = "returned" /\ pc[q] = "returned"
        /\ writer[r].code = StatusOKCode
        /\ writer[q].code = StatusServiceUnavailable
        /\ NamesOf(Body(r).checks) = NamesOf(Body(q).checks)
        /\ Body(r).version = "1.0.0" /\ Body(q).version = "1.0.0"
        /\ Body(r).environment = "test" /\ Body(q).environment = "test"

(* C27: a stored CheckResult has status OK only if the Checker returned OK
   and the context of the check reported no error when the runner inspected
   it after Check returned; a status other than OK is stored as the Checker
   returned it, with its message; and once the slot of a check is written no
   later step, of this or of another check, a timer or a cancellation,
   changes it. *)
C27_OKOnlyIfCheckerOKAndContextAlive ==
    [][\A r \in reqs : \A i \in Slots :
          /\ FinishStep(r, i) =>
                /\ responses'[r][i].status = StatusOK =>
                      /\ task[r][i].status = StatusOK
                      /\ OwnCtxErr(r, i) = NoErr
                /\ task[r][i].status # StatusOK =>
                      /\ responses'[r][i].status = task[r][i].status
                      /\ responses'[r][i].message = task[r][i].msg
          /\ (i \in DOMAIN task[r] /\ task[r][i].pc = "done") =>
                /\ i \in DOMAIN task'[r] /\ task'[r][i].pc = "done"
                /\ responses'[r][i] = responses[r][i]]_vars

(* the response is written with a first slot stored as ERROR as the Checker
   returned it and a second slot stored as OK, although the overall deadline
   fired after the second slot was written *)
C27_Witness ==
    \E r \in reqs :
        /\ Responded(r)
        /\ Len(task[r]) = 2
        /\ task[r][1].status = StatusError
        /\ responses[r][1].status = StatusError
        /\ responses[r][1].message = task[r][1].msg
        /\ task[r][2].status = StatusOK
        /\ responses[r][2].status = StatusOK
        /\ octx[r].err = DeadlineExceeded

(* the deadline of context c, if it has one, lies in the future *)
BeforeDeadline(c) == c.deadline = NoDeadline \/ now < c.deadline

(* all units of request r have written their slot and left the WaitGroup *)
AllJoined(r) ==
    /\ wg[r] = 0
    /\ Len(task[r]) = NumCheckers
    /\ \A i \in DOMAIN task[r] : task[r][i].pc = "done"

(* C28: the cancellations that release the contexts never cause a timeout
   override.  While the client has not cancelled the request, "context
   canceled" is never what the context of an unfinished check reports, and
   the overall context reports it only once the handler has returned, that
   is after all checks were joined and the response was written; the step
   that releases the overall context starts from such a state.  So a
   Checker that returns OK while no deadline has passed and the request is
   not cancelled is stored as OK with its own message. *)
C28_CleanupNeverOverrides ==
    /\ [](\A r \in reqs :
            /\ \A i \in DOMAIN task[r] :
                  (task[r][i].pc # "done" /\ OwnCtxErr(r, i) = Canceled)
                  => reqErr[r] = Canceled
            /\ (octx[r].err = Canceled /\ reqErr[r] = NoErr)
                  => (pc[r] = "returned" /\ AllJoined(r) /\ Responded(r)))
    /\ [][\A r \in reqs :
            /\ (octx'[r].err = Canceled /\ octx[r].err # Canceled
                   /\ reqErr'[r] = NoErr)
                  => (pc[r] = "responded" /\ AllJoined(r) /\ Responded(r))
            /\ \A i \in Slots :
                  (/\ FinishStep(r, i)
                   /\ task[r][i].status = StatusOK
                   /\ reqErr[r] = NoErr
                   /\ BeforeDeadline(octx[r])
                   /\ BeforeDeadline(task[r][i].cctx))
                  => /\ responses'[r][i].status = StatusOK
                     /\ responses'[r][i].message = task[r][i].msg]_vars

(* the handler has returned and released an overall context whose deadline
   had not passed, with every Checker stored as OK and the answer 200 *)
C28_Witness ==
    \E r \in reqs :
        /\ pc[r] = "returned"
        /\ NumCheckers > 0
        /\ octx[r].derived /\ octx[r].err = Canceled
        /\ reqErr[r] = NoErr
        /\ now < octx[r].deadline
        /\ \A i \in Slots : responses[r][i].status = StatusOK
        /\ writer[r].code = StatusOKCode

(* the invocation of request r is over: joined, answered once, returned *)
Completed(r) ==
    /\ pc[r] = "returned"
    /\ AllJoined(r)
    /\ writer[r].code # 0
    /\ Len(writer[r].body) = 1

(* C29: if every Checker's Check eventually returns, every readiness
   invocation that has started eventually joins all its checks, writes
   exactly one response and returns, for zero or more Checkers and under
   every interleaving of the goroutines, the timers and a cancellation by
   the client; and no invocation ever writes a second response. *)
C29_InvocationTerminates ==
    /\ [](\A r \in reqs : Len(writer[r].body) <= 1)
    /\ \A r \in Requests :
          (r \in reqs /\ pc[r] # "idle") ~> Completed(r)

(* an invocation with two Checkers is over, the Checker dispatched first
   having returned after the one dispatched second had written its slot *)
C29_Witness ==
    \E r \in reqs :
        /\ Completed(r)
        /\ Len(task[r]) = 2
        /\ responses[r][1].duration # responses[r][2].duration

(* the shutdown timeout the Server was constructed with *)
ConfiguredShutdownTimeout ==
    IF \E i \in DOMAIN srv.opts : srv.opts[i].kind = "shutdown"
    THEN LET last == CHOOSE i \in DOMAIN srv.opts :
                        /\ srv.opts[i].kind = "shutdown"
                        /\ \A j \in DOMAIN srv.opts :
                              srv.opts[j].kind = "shutdown" => j <= i
         IN  srv.opts[last].d
    ELSE defaultShutdownTimeout

(* the innermost cause of err is http.ErrServerClosed *)
FromServerClosed(err) ==
    /\ err # NilError
    /\ <<err[Len(err)]>> = ErrServerClosed

(* the errors Run logged as "server error" *)
ServerErrorsLogged ==
    {srv.log[i][2] : i \in {j \in DOMAIN srv.log : srv.log[j][1] = "server error"}}

(* C30: Run stays in its select until it takes an error of start or a
   SIGINT/SIGTERM from its channels.  Once it has taken a signal, stop is
   invoked, once in all and with the shutdown timeout the Server was
   constructed with, and never without a signal taken.  An error of start
   that wraps http.ErrServerClosed is never put on the error channel nor
   logged as a server error.  Run returns normally exactly after stop
   returned nil; the process exits with status 1 only after Run took an
   error of start that is not ErrServerClosed, or after stop returned an
   error.  The goroutine of start finds room in the error channel whenever
   it sends.  Under the scheduler, a taken signal leads to the call of stop
   and stop leads to the return of Run or the end of the process. *)
C30_RunLifecycle ==
    /\ [](/\ Len(srv.stops) <= 1
          /\ \A i \in DOMAIN srv.stops : srv.stops[i] = ConfiguredShutdownTimeout
          /\ srv.stops # <<>> => srv.received \in Signals
          /\ (srv.received # "" /\ srv.run # "signalled") => Len(srv.stops) = 1
          /\ \A i \in DOMAIN srv.serverErrors :
                ~FromServerClosed(srv.serverErrors[i])
          /\ \A err \in ServerErrorsLogged : ~FromServerClosed(err)
          /\ srv.go = "sending" =>
                /\ ~FromServerClosed(srv.startErr)
                /\ Len(srv.serverErrors) < defaultErrorBuffer
          /\ srv.run = "returned" =>
                /\ Len(srv.stops) = 1
                /\ srv.stopErr = NilError
                /\ ServerErrorsLogged = {}
          /\ proc = "exit status 1" =>
                \/ /\ srv.stops = <<>>
                   /\ ServerErrorsLogged = {srv.startErr}
                   /\ srv.startErr # NilError
                \/ /\ Len(srv.stops) = 1
                   /\ srv.stopErr # NilError
                   /\ srv.inflight > 0 /\ srv.deadline <= srv.clock)
    /\ [][/\ (srv.run = "select" /\ srv.serverErrors = <<>> /\ srv.shutdown = <<>>)
                => srv'.run = "select"
          /\ (srv.run = "select" /\ srv'.run # "select")
                => \/ srv'.serverErrors # srv.serverErrors
                   \/ srv'.shutdown # srv.shutdown
          /\ srv'.cfg = srv.cfg]_vars
    /\ (srv.received # "") ~> (Len(srv.stops) = 1 \/ proc # "running")
    /\ (srv.run = "stopping") ~> (srv.run \in {"returned", "exited"} \/ proc # "running")

(* a graceful shutdown: Run took SIGTERM, called stop with a configured
   timeout of one tick, a request in flight ended in time, start returned the
   wrapped ErrServerClosed, nothing was forwarded and Run returned *)
C30_Witness ==
    /\ srv.kind = "server"
    /\ srv.run = "returned"
    /\ proc = "running"
    /\ srv.received = "terminated"
    /\ srv.stops = <<TimeStep>>
    /\ srv.go = "done"
    /\ FromServerClosed(srv.startErr)
    /\ srv.startErr # ErrServerClosed
    /\ srv.serverErrors = <<>>
    /\ srv.signals = 1

====
